---------------------------- MODULE Spec2Model ----------------------------
(***************************************************************************)
(* A model of the IR Playbook Bot command pipeline (bug-hun/ir-chatbot):    *)
(* the authorization gate (authMiddleware.js), the execution engine and     *)
(* result normalizer (PowerShellService), the audit ledger (AuditService)   *)
(* and the Slack command and button handlers.                               *)
(*                                                                         *)
(* Text is modelled as a sequence of tokens.  A token is one punctuation    *)
(* character or one word (a run of letters or digits that the code never    *)
(* looks inside).  JSON.stringify and JSON.parse are modelled on these      *)
(* token sequences.                                                        *)
(***************************************************************************)
EXTENDS Integers, Sequences, FiniteSets, TLC

(***************************************************************************)
(* JSON values.  Every value is a record of the same shape:                 *)
(*   t    : the type tag                                                    *)
(*   s    : the text of a string or the digits of a number                  *)
(*   keys : the property names of an object, in insertion order             *)
(*   k    : the property values of an object or the elements of an array    *)
(***************************************************************************)
JNull == [t |-> "null", s |-> <<>>, keys |-> <<>>, k |-> <<>>]
JTrue == [t |-> "true", s |-> <<>>, keys |-> <<>>, k |-> <<>>]
JFalse == [t |-> "false", s |-> <<>>, keys |-> <<>>, k |-> <<>>]
JNum(d) == [t |-> "num", s |-> d, keys |-> <<>>, k |-> <<>>]
JStr(x) == [t |-> "str", s |-> x, keys |-> <<>>, k |-> <<>>]
JArr(es) == [t |-> "arr", s |-> <<>>, keys |-> <<>>, k |-> es]
JObj(ks, vs) == [t |-> "obj", s |-> <<>>, keys |-> ks, k |-> vs]
\* The JavaScript value undefined (never the result of JSON.parse).
JUndef == [t |-> "undef", s |-> <<>>, keys |-> <<>>, k |-> <<>>]

Digits == {"0", "1", "5", "7"}
Whitespace == {" "}

\* obj[name] for a JSON object: the last property of that name, else undefined.
RECURSIVE GetFrom(_, _, _)
GetFrom(o, name, i) ==
    IF i = 0 THEN JUndef
    ELSE IF o.keys[i] = name THEN o.k[i]
    ELSE GetFrom(o, name, i - 1)

Get(o, name) == IF o.t = "obj" THEN GetFrom(o, name, Len(o.keys)) ELSE JUndef

\* JavaScript truthiness of a value.
Truthy(v) ==
    CASE v.t \in {"null", "undef", "false"} -> FALSE
      [] v.t = "str" -> v.s # <<>>
      [] v.t = "num" -> \E i \in 1..Len(v.s) : v.s[i] # "0"
      [] OTHER -> TRUE

(***************************************************************************)
(* JSON.stringify                                                          *)
(***************************************************************************)
RECURSIVE EscapeString(_)
EscapeString(x) ==
    IF x = <<>> THEN <<>>
    ELSE (IF Head(x) \in {"\"", "\\"} THEN <<"\\", Head(x)>> ELSE <<Head(x)>>)
         \o EscapeString(Tail(x))

QuoteString(x) == <<"\"">> \o EscapeString(x) \o <<"\"">>

RECURSIVE Stringify(_)
RECURSIVE StringifyMembers(_, _)
RECURSIVE StringifyElements(_, _)
StringifyMembers(o, i) ==
    IF i > Len(o.keys) THEN <<>>
    ELSE (IF i > 1 THEN <<",">> ELSE <<>>)
         \o QuoteString(o.keys[i]) \o <<":">> \o Stringify(o.k[i])
         \o StringifyMembers(o, i + 1)
StringifyElements(a, i) ==
    IF i > Len(a.k) THEN <<>>
    ELSE (IF i > 1 THEN <<",">> ELSE <<>>)
         \o Stringify(a.k[i]) \o StringifyElements(a, i + 1)
Stringify(v) ==
    CASE v.t = "null" -> <<"null">>
      [] v.t = "true" -> <<"true">>
      [] v.t = "false" -> <<"false">>
      [] v.t = "num" -> v.s
      [] v.t = "str" -> QuoteString(v.s)
      [] v.t = "arr" -> <<"[">> \o StringifyElements(v, 1) \o <<"]">>
      [] v.t = "obj" -> <<"{">> \o StringifyMembers(v, 1) \o <<"}">>
      [] OTHER -> <<"null">>

(***************************************************************************)
(* JSON.parse.  Every parsing operator returns [ok, v, i]: whether it       *)
(* succeeded, the value read, and the index of the first token after it.    *)
(* In the inputs of this model a backslash is only ever followed by a       *)
(* quote or a backslash; any other escape is rejected.                      *)
(***************************************************************************)
ParseFail == [ok |-> FALSE, v |-> JNull, i |-> 0]
ParseOk(v, i) == [ok |-> TRUE, v |-> v, i |-> i]

RECURSIVE SkipWs(_, _)
SkipWs(s, i) ==
    IF i <= Len(s) /\ s[i] \in Whitespace THEN SkipWs(s, i + 1) ELSE i

\* The text of a string literal whose opening quote has been read.
RECURSIVE ParseString(_, _, _)
ParseString(s, j, acc) ==
    IF j > Len(s) THEN ParseFail
    ELSE IF s[j] = "\"" THEN ParseOk(JStr(acc), j + 1)
    ELSE IF s[j] = "\\"
         THEN IF j + 1 <= Len(s) /\ s[j + 1] \in {"\"", "\\"}
              THEN ParseString(s, j + 2, Append(acc, s[j + 1]))
              ELSE ParseFail
    ELSE ParseString(s, j + 1, Append(acc, s[j]))

RECURSIVE ParseDigits(_, _, _)
ParseDigits(s, j, acc) ==
    IF j <= Len(s) /\ s[j] \in Digits
    THEN ParseDigits(s, j + 1, Append(acc, s[j]))
    ELSE ParseOk(JNum(acc), j)

\* A property assignment: a repeated name replaces the earlier value.
RECURSIVE IndexOfKey(_, _, _)
IndexOfKey(ks, name, i) ==
    IF i > Len(ks) THEN 0
    ELSE IF ks[i] = name THEN i
    ELSE IndexOfKey(ks, name, i + 1)

SetMember(o, name, val) ==
    LET at == IndexOfKey(o.keys, name, 1)
    IN  IF at = 0
        THEN JObj(Append(o.keys, name), Append(o.k, val))
        ELSE JObj(o.keys, [o.k EXCEPT ![at] = val])

RECURSIVE ParseValue(_, _)
RECURSIVE ParseMembers(_, _, _)
RECURSIVE ParseElements(_, _, _)

\* Members of an object, the index at the first token of a member.
ParseMembers(s, i, o) ==
    LET j == SkipWs(s, i)
    IN  IF j > Len(s) \/ s[j] # "\"" THEN ParseFail
        ELSE LET key == ParseString(s, j + 1, <<>>)
             IN  IF ~key.ok THEN ParseFail
                 ELSE LET c == SkipWs(s, key.i)
                      IN  IF c > Len(s) \/ s[c] # ":" THEN ParseFail
                          ELSE LET val == ParseValue(s, c + 1)
                               IN  IF ~val.ok THEN ParseFail
                                   ELSE LET e == SkipWs(s, val.i)
                                            o2 == SetMember(o, key.v.s, val.v)
                                        IN  IF e > Len(s) THEN ParseFail
                                            ELSE IF s[e] = "}" THEN ParseOk(o2, e + 1)
                                            ELSE IF s[e] = "," THEN ParseMembers(s, e + 1, o2)
                                            ELSE ParseFail

\* Elements of an array, the index at the first token of an element.
ParseElements(s, i, a) ==
    LET val == ParseValue(s, i)
    IN  IF ~val.ok THEN ParseFail
        ELSE LET e == SkipWs(s, val.i)
                 a2 == JArr(Append(a.k, val.v))
             IN  IF e > Len(s) THEN ParseFail
                 ELSE IF s[e] = "]" THEN ParseOk(a2, e + 1)
                 ELSE IF s[e] = "," THEN ParseElements(s, e + 1, a2)
                 ELSE ParseFail

ParseValue(s, i) ==
    LET j == SkipWs(s, i)
    IN  IF j > Len(s) THEN ParseFail
        ELSE CASE s[j] = "{" ->
                    LET n == SkipWs(s, j + 1)
                    IN  IF n <= Len(s) /\ s[n] = "}"
                        THEN ParseOk(JObj(<<>>, <<>>), n + 1)
                        ELSE ParseMembers(s, j + 1, JObj(<<>>, <<>>))
               [] s[j] = "[" ->
                    LET n == SkipWs(s, j + 1)
                    IN  IF n <= Len(s) /\ s[n] = "]"
                        THEN ParseOk(JArr(<<>>), n + 1)
                        ELSE ParseElements(s, j + 1, JArr(<<>>))
               [] s[j] = "\"" -> ParseString(s, j + 1, <<>>)
               [] s[j] = "0" -> ParseOk(JNum(<<"0">>), j + 1)
               [] s[j] \in Digits \ {"0"} -> ParseDigits(s, j, <<>>)
               [] s[j] = "true" -> ParseOk(JTrue, j + 1)
               [] s[j] = "false" -> ParseOk(JFalse, j + 1)
               [] s[j] = "null" -> ParseOk(JNull, j + 1)
               [] OTHER -> ParseFail

\* JSON.parse(s): one value, then only white space.  ok = FALSE models the
\* SyntaxError it throws.
JsonParse(s) ==
    LET r == ParseValue(s, 1)
    IN  IF r.ok /\ SkipWs(s, r.i) > Len(s) THEN r ELSE ParseFail

(***************************************************************************)
(* String helpers of the normalizer                                        *)
(***************************************************************************)
RECURSIVE TrimEnd(_)
TrimEnd(s) ==
    IF s # <<>> /\ s[Len(s)] \in Whitespace THEN TrimEnd(SubSeq(s, 1, Len(s) - 1)) ELSE s

\* String.prototype.trim
Trim(s) == LET i == SkipWs(s, 1) IN TrimEnd(SubSeq(s, i, Len(s)))

\* s.match(/\{[\s\S]*\}/): the span from the first "{" to the last "}" after
\* it, or <<>> (no match; a match is never empty).
JsonMatch(s) ==
    LET opens == {i \in 1..Len(s) : s[i] = "{"}
        first == CHOOSE i \in opens : \A j \in opens : i <= j
        closes == {i \in 1..Len(s) : s[i] = "}" /\ i > first}
        last == CHOOSE i \in closes : \A j \in closes : j <= i
    IN  IF opens = {} THEN <<>>
        ELSE IF closes = {} THEN <<>>
        ELSE SubSeq(s, first, last)

StartsWith(s, tok) == s # <<>> /\ s[1] = tok


(***************************************************************************)
(* The result normalizer: the body of the 'close' handler of                *)
(* PowerShellService.execute.                                              *)
(***************************************************************************)
K(word) == <<word>>

\* The exit code handed to 'close': a number, or null when the child was
\* ended by a signal.
ExitCodes == {"0", "1", "null"}

\* String(v), as new Error(v) applies it to its argument.
RECURSIVE ToStr(_)
RECURSIVE JoinElements(_, _)
JoinElements(a, i) ==
    IF i > Len(a.k) THEN <<>>
    ELSE (IF i > 1 THEN <<",">> ELSE <<>>)
         \o (IF a.k[i].t \in {"null", "undef"} THEN <<>> ELSE ToStr(a.k[i]))
         \o JoinElements(a, i + 1)
ToStr(v) ==
    CASE v.t \in {"str", "num"} -> v.s
      [] v.t = "obj" -> <<"[object Object]">>
      [] v.t = "arr" -> JoinElements(v, 1)
      [] OTHER -> <<v.t>>

\* An outcome of the promise: resolve(v) or reject(new Error(m)).
Resolved(v) == [kind |-> "resolve", v |-> v, m |-> <<>>]
Rejected(m) == [kind |-> "reject", v |-> JUndef, m |-> m]
\* A promise on which neither resolve nor reject has been called.
Pending == [kind |-> "pending", v |-> JUndef, m |-> <<>>]

IsTransportWrapper(data) ==
    /\ Truthy(data)
    /\ data.t \in {"obj", "arr"}
    /\ Get(data, K("value")) # JUndef
    /\ Get(data, K("PSComputerName")) # JUndef

\* The while loop that unwraps {value, PSComputerName, RunspaceId}; n counts
\* its iterations.
RECURSIVE UnwrapLoop(_, _)
UnwrapLoop(data, n) ==
    IF IsTransportWrapper(data)
    THEN UnwrapLoop(Get(data, K("value")), n + 1)
    ELSE [v |-> data, n |-> n]

UnwrapTransport(data) == UnwrapLoop(data, 0)

\* The while loop that parses a JSON string again; n counts the iterations
\* that replaced data.
RECURSIVE ReparseLoop(_, _)
ReparseLoop(data, n) ==
    IF data.t # "str" THEN [v |-> data, n |-> n]
    ELSE LET trimmed == Trim(data.s)
         IN  IF StartsWith(trimmed, "{") \/ StartsWith(trimmed, "[")
             THEN LET parsed == JsonParse(trimmed)
                  IN  IF parsed.ok
                      THEN ReparseLoop(parsed.v, n + 1)
                      ELSE [v |-> data, n |-> n]
             ELSE [v |-> data, n |-> n]

\* A loop that parses every string that holds JSON text, whatever it starts with.
ReparseEveryString(data) ==
    IF data.t = "str" /\ JsonParse(Trim(data.s)).ok
    THEN ReparseLoop(JsonParse(Trim(data.s)).v, 1)
    ELSE [v |-> data, n |-> 0]

\* A handler without the re-parse loop.
ReparseNothing(data) == [v |-> data, n |-> 0]

ReparseStrings(data) == ReparseLoop(data, 0)

\* What the handler does with a structure parsed from stdout.
EnvelopeOutcome(result) ==
    IF Truthy(Get(result, K("Success")))
    THEN Resolved(ReparseStrings(UnwrapTransport(Get(result, K("Data"))).v).v)
    ELSE LET err == Get(result, K("Error"))
         IN  Rejected(IF Truthy(err) THEN ToStr(err) ELSE <<"Unknown error">>)

\* A branch for empty output that forgets to reject when the child failed.
EmptyOutputForgotten(stderr, code) ==
    IF code = "0"
    THEN Resolved(JObj(<<K("Success"), K("Data")>>, <<JTrue, JNull>>))
    ELSE Pending

\* if (!trimmedOutput) { ...; return; }
EmptyOutputOutcome(stderr, code) ==
    IF code = "0"
    THEN Resolved(JObj(<<K("Success"), K("Data")>>, <<JTrue, JNull>>))
    ELSE Rejected(IF stderr # <<>> THEN stderr
                  ELSE <<"PowerShell exited with code", code>>)

\* A handler that looks at the exit code before it looks at the envelope.
CloseOutcomeByExitCode(stdout, stderr, code) ==
    LET parsed == JsonParse(JsonMatch(Trim(stdout)))
    IN  IF code # "0"
        THEN Rejected(IF stderr # <<>> THEN stderr ELSE <<"Exit code", code>>)
        ELSE IF parsed.ok THEN EnvelopeOutcome(parsed.v)
        ELSE Resolved(JStr(Trim(stdout)))

\* The outcome the 'close' handler hands to resolve or reject.
CloseOutcome(stdout, stderr, code) ==
    LET trimmedOutput == Trim(stdout)
        jsonMatch == JsonMatch(trimmedOutput)
        parsed == JsonParse(jsonMatch)
    IN  IF trimmedOutput = <<>>
        THEN EmptyOutputOutcome(stderr, code)
        ELSE IF jsonMatch # <<>>
        THEN IF parsed.ok
             THEN EnvelopeOutcome(parsed.v)
             ELSE \* JSON.parse threw: the catch block
                  IF code = "0"
                  THEN Resolved(JStr(Trim(stdout)))
                  ELSE Rejected(IF stderr # <<>> THEN stderr
                                ELSE IF stdout # <<>> THEN stdout
                                ELSE <<"Exit code", code>>)
        ELSE IF code = "0"
             THEN Resolved(JStr(trimmedOutput))
             ELSE Rejected(IF stderr # <<>> THEN stderr
                           ELSE IF trimmedOutput # <<>> THEN trimmedOutput
                           ELSE <<"Exit code", code>>)


(***************************************************************************)
(* Bounds of the model                                                     *)
(***************************************************************************)
\* The longest string value (in tokens) drawn as an input.
MaxStrLen == 3
\* The most properties of an object, or elements of an array, drawn as an input.
MaxMembers == 2
\* The most transport wrappers nested around a payload drawn as an input.
MaxWraps == 9
\* The most calls of AuditService.log in one behaviour.
MaxLogCalls == 2
\* The most calls that read the store between two calls of log.
MaxReads == 1
\* The most calls of IncidentService methods in one behaviour.
MaxIncidentCalls == 4

VARIABLES
    nV,         \* normalizer round trip: the value V the remote procedure returned
    nStdout,    \* the text that reaches stdout
    nCode,      \* the exit code of the child
    nOut,       \* the outcome of the 'close' handler
    nStage,     \* "value", "encoded", "normalized" ("off" in other specifications)
    rInput,     \* one 'close' event: what the command wrote (its kind and value)
    rStdout,    \* the stdout the handler has collected
    rStderr,    \* the stderr it has collected
    rCode,      \* the exit code of the child
    rOut,       \* the outcome of the 'close' handler
    rUnwraps,   \* the iterations its unwrap loop ran
    rReparses,  \* the iterations its re-parse loop ran
    rStage,     \* "input", "written", "closed" ("off" in other specifications)
    rolesFile,  \* the content of config/roles.json (or UnreadableFile)
    rolesConfig,\* authMiddleware's module variable rolesConfig (NullConfig: null)
    aUser,      \* the last checkPermission call: its userId,
    aAction,    \*   its action
    aResult,    \*   and what it returned
    aStage,     \* "none", "checked" (a call has returned)
    eChild,     \* execute(): the spawned process: "none", "running", "exited", "failed"
    eOutLeft,   \* what the child's stdout pipe has yet to deliver
    eErrLeft,   \* what the child's stderr pipe has yet to deliver
    eStdout,    \* the stdout collected so far
    eStderr,    \* the stderr collected so far
    eExit,      \* the exit code of the child ("" while it runs)
    eTimer,     \* the timeout timer: "unset", "armed", "fired", "cleared"
    ePromise,   \* the promise execute() returned: Pending or its outcome
    eBy,        \* the callback that settled it: "none", "close", "timer", "error", "spawn"
    eKills,     \* SIGTERM signals delivered to the child
    eCalls,     \* calls of resolve or reject so far
    eClosed,    \* 'close' has been emitted
    eErrorEmitted, \* 'error' has been emitted
    hStage,     \* the handler in hand: "idle", "waiting" (for the engine), "running", "done"
    hReq,       \* the request it handles: command or button, user, target, process id
    hResult,    \* how its executeRemoteScript call settled ("" until it has)
    hTodo,      \* the statements the handler has yet to run after the call settled
    hGate,      \* the checkPermission calls made for the request
    hInvoked,   \* the calls of the execution engine made for the request
    hAudit,     \* the entries appended to the audit log for the request
    hAppendFailed, \* an append to the audit log failed while handling the request
    hSent,      \* the messages sent to the caller for the request
    offered,    \* the buttons on the messages users have in front of them
    sFile,      \* the audit store: the text of logs/audit.log
    sClock,     \* the time of the latest call of log, in ticks
    sCalls,     \* the calls of log made so far
    sReads,     \* the calls of query, getSummary and exportToCsv since the last log
    sProcessLog,\* what has been handed to the process logger (Winston), in order
    sWritten,   \* the entries whose append succeeded, in order, each with the
                \*   AuditService instance that wrote it
    sLast,      \* the latest AuditService call: its operation, arguments and result
    iMap,       \* IncidentService.activeIncidents: incident id -> incident (or NoIncident)
    iCalls,     \* the calls of IncidentService methods made so far (the clock)
    iLast,      \* the latest call: its operation, its id, the map before it, its result
    tConfig,    \* targetsConfig (config/targets.json as both services load it)
    tTarget,    \* the identifier a caller supplies
    tLast,      \* the latest call of a resolver or of validateTarget, and its result
    cPassword,  \* this.credentials.password (IR_PASSWORD)
    cParams,    \* params of executeRemoteScript: a sequence of [key, value]
    cDeclarations, \* the declarations the map over Object.entries(params) returns
    cCommand,   \* psCommand, the text handed to execute
    cOutcome,   \* how the promise of executeRemoteScript settled
    cMessage,   \* the text of the message the handler passes to respond
    cStage,     \* "off", "start", "spawned", "settled", "responded"
    cSpawns,    \* calls of spawn('powershell.exe', ...) so far
    gRunning,   \* the task the event loop is running: "none", "reload", "check"
    gReloadPc,  \* reloadConfig: "idle", "nulled"
    gCheckPc,   \* checkPermission: "idle", "flag", "role", "done"
    gCheck      \* the call of checkPermission: its arguments, what it read, its result

normVars == <<nV, nStdout, nCode, nOut, nStage>>
rawVars == <<rInput, rStdout, rStderr, rCode, rOut, rUnwraps, rReparses, rStage>>
cfgVars == <<rolesFile, rolesConfig>>
authVars == <<aUser, aAction, aResult, aStage>>

execVars == <<eChild, eOutLeft, eErrLeft, eStdout, eStderr, eExit, eTimer,
              ePromise, eBy, eKills, eCalls, eClosed, eErrorEmitted>>

pipeVars == <<hStage, hReq, hResult, hTodo, hGate, hInvoked, hAudit, hAppendFailed,
              hSent, offered>>

storeVars == <<sFile, sClock, sCalls, sReads, sProcessLog, sWritten, sLast>>

incidentVars == <<iMap, iCalls, iLast>>
targetVars == <<tConfig, tTarget, tLast>>
commandVars == <<cPassword, cParams, cDeclarations, cCommand, cOutcome, cMessage, cStage,
                 cSpawns>>
reloadVars == <<gRunning, gReloadPc, gCheckPc, gCheck>>

vars == <<normVars, rawVars, cfgVars, authVars, execVars, pipeVars, storeVars,
          incidentVars, targetVars, commandVars, reloadVars>>

\* What the actions of one part leave alone.
exceptNorm == <<rawVars, cfgVars, authVars, execVars, pipeVars, storeVars,
    incidentVars, targetVars, commandVars, reloadVars>>
exceptRaw == <<normVars, cfgVars, authVars, execVars, pipeVars, storeVars,
    incidentVars, targetVars, commandVars, reloadVars>>
exceptAuth == <<normVars, rawVars, execVars, pipeVars, storeVars,
    incidentVars, targetVars, commandVars, reloadVars>>
exceptExec == <<normVars, rawVars, cfgVars, authVars, pipeVars, storeVars,
    incidentVars, targetVars, commandVars, reloadVars>>
exceptStore == <<normVars, rawVars, cfgVars, authVars, execVars, pipeVars,
    incidentVars, targetVars, commandVars, reloadVars>>
exceptIncident == <<normVars, rawVars, cfgVars, authVars, execVars, pipeVars, storeVars,
    targetVars, commandVars, reloadVars>>
exceptTarget == <<normVars, rawVars, cfgVars, authVars, execVars, pipeVars, storeVars,
    incidentVars, commandVars, reloadVars>>
exceptCommand == <<normVars, rawVars, cfgVars, authVars, execVars, pipeVars, storeVars,
    incidentVars, targetVars, reloadVars>>
exceptReload == <<normVars, rawVars, authVars, execVars, pipeVars, storeVars,
    incidentVars, targetVars, commandVars>>
exceptPipe == <<normVars, rawVars, authVars, execVars, storeVars,
    incidentVars, targetVars, commandVars, reloadVars>>


(***************************************************************************)
(* The normalization round trip: the values drawn as inputs                 *)
(***************************************************************************)
AsSeq(f) == SubSeq(f, 1, Len(f))

StrAlphabet == {"{", "}", "[", "]", "\"", "\\", " ", "5", "a"}

StringsUpTo(n) == UNION {{AsSeq(f) : f \in [1..m -> StrAlphabet]} : m \in 0..n}

\* Longer strings that hold encoded structures.
SampleStrings ==
    { Stringify(JObj(<<K("EventCount")>>, <<JNum(K("5"))>>)),
      <<" ">> \o Stringify(JArr(<<JStr(K("a")), JNull>>)) \o <<" ">>,
      Stringify(JStr(Stringify(JObj(<<>>, <<>>)))),
      <<"{", "\"", "EventCount", "\"", ":", "}">> }

FieldNames == {K("value"), K("PSComputerName"), K("Hostname")}

FieldValues ==
    { JNull, JTrue, JNum(K("5")), JStr(K("a")), JStr(<<"{", "}">>),
      JObj(<<K("EventCount")>>, <<JNum(K("5"))>>) }

KeyLists(n) ==
    UNION {{AsSeq(f) : f \in {g \in [1..m -> FieldNames] :
                                  \A i, j \in 1..m : i # j => g[i] # g[j]}}
           : m \in 0..n}

ObjectValues ==
    UNION {{JObj(ks, AsSeq(f)) : f \in [1..Len(ks) -> FieldValues]}
           : ks \in KeyLists(MaxMembers)}

ArrayValues ==
    UNION {{JArr(AsSeq(f)) : f \in [1..m -> FieldValues]} : m \in 0..MaxMembers}

InputValues ==
    {JNull, JTrue, JFalse, JNum(K("0")), JNum(<<"1", "5">>)}
    \cup {JStr(x) : x \in StringsUpTo(MaxStrLen) \cup SampleStrings}
    \cup ObjectValues \cup ArrayValues

\* What Invoke-Command wraps around the value a remote script returns.
TransportEnvelope(v) ==
    JObj(<<K("value"), K("PSComputerName"), K("RunspaceId")>>,
         <<v, JStr(K("host")), JStr(K("a"))>>)

\* @{ Success = $true; Data = $result }
SuccessEnvelope(v) == JObj(<<K("Success"), K("Data")>>, <<JTrue, v>>)


(***************************************************************************)
(* The 'close' handler: what a command may have written to stdout          *)
(***************************************************************************)
\* @{ Success = $false; Error = ...; Details = ... }; err is JUndef when the
\* structure carries no Error property.
FailureEnvelope(err) ==
    IF err = JUndef
    THEN JObj(<<K("Success")>>, <<JFalse>>)
    ELSE JObj(<<K("Success"), K("Error"), K("Details")>>,
              <<JFalse, err, JStr(K("System.Exception"))>>)

\* A value with n transport wrappers around it.
RECURSIVE WrapTimes(_, _)
WrapTimes(v, n) == IF n = 0 THEN v ELSE TransportEnvelope(WrapTimes(v, n - 1))

\* What getQuickStatus pipes to ConvertTo-Json: a structure with no Success tag.
QuickStatusOutput ==
    JObj(<<K("Hostname"), K("ProcessCount")>>, <<JStr(K("host")), JNum(K("7"))>>)

\* The Data of a success envelope: the values of the round trip, values under
\* up to MaxWraps transport wrappers, and a string that encodes a wrapper.
ClosePayloads ==
    InputValues
    \cup {WrapTimes(v, n) :
              v \in {JObj(<<K("EventCount")>>, <<JNum(K("5"))>>),
                     JStr(Stringify(JObj(<<K("EventCount")>>, <<JNum(K("5"))>>)))},
              n \in 1..MaxWraps}
    \cup {JStr(Stringify(TransportEnvelope(JNum(K("5")))))}

\* What reaches stdout: an encoded success envelope, an encoded failure
\* envelope, an encoded structure that is no envelope, or plain text.
CloseInputs ==
    {[kind |-> "success", v |-> p] : p \in ClosePayloads}
    \cup {[kind |-> "failure", v |-> e] :
              e \in {JStr(K("Access is denied")), JStr(<<>>), JNull, JUndef}}
    \cup {[kind |-> "structure", v |-> o] : o \in ObjectValues \cup {QuickStatusOutput}}
    \cup {[kind |-> "text", v |-> JStr(x)] :
              x \in {<<>>, <<" ">>, <<"ok", " ">>, <<"{", "oops", "}">>}}

\* ConvertTo-Json of the structure (or the text as it is).
EncodeInput(input) ==
    CASE input.kind = "success" -> Stringify(SuccessEnvelope(input.v))
      [] input.kind = "failure" -> Stringify(FailureEnvelope(input.v))
      [] input.kind = "structure" -> Stringify(input.v)
      [] OTHER -> input.v.s

\* How often the bodies of the two while loops of the handler run for stdout.
LoopCounts(stdout) ==
    LET jsonMatch == JsonMatch(Trim(stdout))
        parsed == JsonParse(jsonMatch)
    IN  IF jsonMatch # <<>> /\ parsed.ok /\ Truthy(Get(parsed.v, K("Success")))
        THEN LET unwrapped == UnwrapTransport(Get(parsed.v, K("Data")))
                 reparsed == ReparseStrings(unwrapped.v)
             IN  [unwraps |-> unwrapped.n,
                  reparses |-> reparsed.n + (IF reparsed.v.t = "str" THEN 1 ELSE 0)]
        ELSE [unwraps |-> 0, reparses |-> 0]
(***************************************************************************)
(* The authorization gate (authMiddleware.js)                              *)
(***************************************************************************)
Permissions == {"help", "status", "quarantine", "collect", "kill", "memdump"}

\* "GHOST" is a role name that no role table defines.
RoleNames == {"ADMIN", "IR_ANALYST", "SOC_TIER2", "SOC_TIER1", "GHOST"}
Users == {"U1", "U2"}

NoRole == [defined |-> FALSE, permissions |-> {}]
Role(ps) == [defined |-> TRUE, permissions |-> ps]

\* A configuration object.  users[u] = "" : u has no entry; defaultRole = "" :
\* the file names no default role; kind tells where the object came from.
Config(kind, roles, users, defaultRole, flag) ==
    [kind |-> kind, roles |-> roles, users |-> users,
     defaultRole |-> defaultRole, requireAuthentication |-> flag]

NoRoles == [r \in RoleNames |-> NoRole]
NoUsers == [u \in Users |-> ""]

\* rolesConfig = null
NullConfig == Config("null", NoRoles, NoUsers, "", FALSE)
\* A roles.json that cannot be read or parsed.
UnreadableFile == Config("unreadable", NoRoles, NoUsers, "", FALSE)

\* The object loadRolesConfig falls back to when reading roles.json fails.
DefaultsConfig ==
    Config("defaults",
           [r \in RoleNames |->
               CASE r \in {"ADMIN", "IR_ANALYST"} -> Role(Permissions)
                 [] r = "SOC_TIER2" -> Role({"help", "status", "collect"})
                 [] r = "SOC_TIER1" -> Role({"help", "status"})
                 [] OTHER -> NoRole],
           NoUsers, "SOC_TIER1", FALSE)

\* The role tables, user tables and default roles a roles.json is drawn from.
FileRoleTables ==
    {[r \in RoleNames |->
         CASE r = "ADMIN" -> Role(Permissions)
           [] r = "IR_ANALYST" -> analyst
           [] r = "SOC_TIER2" -> Role({"help", "status", "collect"})
           [] r = "SOC_TIER1" -> tier1
           [] OTHER -> NoRole]
     : analyst \in {NoRole, Role(Permissions), Role({"quarantine"})},
       tier1 \in {NoRole, Role({}), Role({"help", "status"})}}

FileUserTables ==
    {[u \in Users |-> IF u = "U1" THEN r1 ELSE r2]
     : r1 \in {"", "IR_ANALYST", "SOC_TIER1", "GHOST"}, r2 \in {"", "IR_ANALYST"}}

FileConfigs ==
    {Config("file", roles, users, dflt, flag)
     : roles \in FileRoleTables, users \in FileUserTables,
       dflt \in {"", "SOC_TIER1", "IR_ANALYST", "GHOST"}, flag \in BOOLEAN}

\* A loadRolesConfig without the cache: it reads roles.json at every call.
LoadRolesConfigUncached(config, file) ==
    IF file.kind = "file" THEN file ELSE DefaultsConfig

\* loadRolesConfig(): the value of rolesConfig after the call.
LoadRolesConfig(config, file) ==
    IF config.kind # "null" THEN config
    ELSE IF file.kind = "file" THEN file
    ELSE DefaultsConfig

\* A default role lookup that forgets the configured default role.
GetUserRoleFixedDefault(config, userId) ==
    IF config.users[userId] # "" THEN config.users[userId] ELSE "SOC_TIER1"

GetUserRole(config, userId) ==
    IF config.users[userId] # "" THEN config.users[userId]
    ELSE IF config.defaultRole # "" THEN config.defaultRole
    ELSE "SOC_TIER1"

GetRolePermissions(config, roleName) ==
    IF config.roles[roleName].defined
    THEN config.roles[roleName].permissions
    ELSE {}

\* checkPermission(userId, action) against a loaded configuration.
HasPermission(config, userId, action) ==
    IF ~config.requireAuthentication THEN TRUE
    ELSE action \in GetRolePermissions(config, GetUserRole(config, userId))


(***************************************************************************)
(* The execution engine: PowerShellService.execute                         *)
(***************************************************************************)

\* A promise that takes the outcome of the latest call of resolve or reject.
SettledByLatest(promise, outcome) == IF outcome = Pending THEN promise ELSE outcome

\* A promise settles once: later calls of resolve and reject change nothing.
Settled(promise, outcome) ==
    IF promise.kind = "pending" THEN outcome ELSE promise

\* reject(new Error(`Execution timed out after ${this.timeout}ms`))
TimeoutError == Rejected(<<"Execution timed out after", "300000", "ms">>)
\* The error of a spawn that failed (no powershell.exe, no access).
SpawnError == Rejected(<<"spawn powershell.exe ENOENT">>)
\* The error of a kill that failed.
KillError == Rejected(<<"kill EPERM">>)
\* The exit code 'close' reports after a failed spawn (a negative errno).
SpawnFailedCode == "-2"

\* What a child may write: stdout and stderr of one run.
ScriptOutputs ==
    { [out |-> Stringify(SuccessEnvelope(TransportEnvelope(
                   JObj(<<K("Hostname")>>, <<JStr(K("host"))>>)))), err |-> <<>>],
      [out |-> Stringify(JObj(<<K("Success"), K("Error")>>,
                              <<JFalse, JStr(K("Access is denied"))>>)), err |-> <<>>],
      [out |-> Stringify(JObj(<<K("Hostname")>>, <<JStr(K("host"))>>)), err |-> <<>>],
      [out |-> <<>>, err |-> <<>>],
      [out |-> <<>>, err |-> <<"Connecting to remote server failed">>],
      [out |-> <<"ok", " ">>, err |-> <<"warning">>],
      [out |-> <<"{", "oops", "}">>, err |-> <<>>] }


(***************************************************************************)
(* The command pipeline: the /ir command, its handlers and the buttons     *)
(***************************************************************************)
\* args[1] and args[2] of a command: a value, or "" when the word is absent.
TargetArgs == {"vm1", ""}
ProcessArgs == {"4242", ""}

\* The words a caller may put first in "/ir ..."; "bogus" is no command.
SlashActions == {"help", "targets", "status", "quarantine", "collect", "kill",
                 "memdump", "release", "bogus"}
ButtonIds == {"confirm_quarantine", "cancel_quarantine", "release_quarantine",
              "quick_collect", "quick_status", "confirm_kill", "cancel_kill"}

Request(kind, userId, target, pid) ==
    [kind |-> kind, user |-> userId, target |-> target, pid |-> pid]
NoRequest == Request("none", "", "", "")

\* A button of a message in front of a user, with the value it carries.
Button(id, userId, target, pid) ==
    [button |-> id, user |-> userId, target |-> target, pid |-> pid]

\* generateIncidentId(): one identifier stands for all of them.
GenerateIncidentId == "IR-20251226-ABCD"

\* if (!target)
MissingTarget(target) == target = ""

\* A validation of the process handlers that looks at the target only.
MissingTargetOnly(target, processId) == target = ""

\* if (!target || !processId)
MissingTargetOrProcess(target, processId) == target = "" \/ processId = ""

\* One call of checkPermission and what it returned.
GateCall(userId, permission, allowed) ==
    [user |-> userId, permission |-> permission, allowed |-> allowed]

\* One call of the execution engine: executeRemoteScript(target, script, ...)
\* or, for the download, execute(command).
EngineCall(entry, script, target) ==
    [entry |-> entry, script |-> script, target |-> target]

\* The event a handler passes to auditService.log.
AuditEvent(action, userId, target, status, incidentId) ==
    [action |-> action, userId |-> userId, target |-> target,
     status |-> status, incidentId |-> incidentId]

\* AuditService.log: the entry it builds from the event.
AuditEntry(event) ==
    [action |-> event.action, userId |-> event.userId,
     target |-> event.target, status |-> event.status]

\* The statements a handler runs after its engine call has settled.
AuditOp(action, status, incidentId) ==
    [op |-> "audit", action |-> action, status |-> status, incidentId |-> incidentId]
DownloadOp == [op |-> "download", action |-> "", status |-> "", incidentId |-> ""]
RespondOp(message) ==
    [op |-> "respond", action |-> "", status |-> message, incidentId |-> ""]

\* How executeRemoteScript may settle: with an object, with an object that has
\* a Path, with null, or rejected.
EngineOutcomes == {"object", "archive", "null", "error"}

\* handleStatus after the call: formatStatusResult takes a null result.
AfterStatus(outcome) ==
    IF outcome # "error"
    THEN <<AuditOp("STATUS", "SUCCESS", ""), RespondOp("result")>>
    ELSE <<AuditOp("STATUS", "FAILED", ""), RespondOp("failure")>>

\* handleRelease after the call: the result is not read.
AfterRelease(outcome) ==
    IF outcome # "error"
    THEN <<AuditOp("RELEASE_QUARANTINE", "SUCCESS", GenerateIncidentId),
           RespondOp("result")>>
    ELSE <<AuditOp("RELEASE_QUARANTINE", "FAILED", GenerateIncidentId),
           RespondOp("failure")>>

\* handleCollect after the call: result.Path of null throws into the catch.
AfterCollect(outcome) ==
    CASE outcome = "error" ->
            <<AuditOp("COLLECT_LOGS", "FAILED", GenerateIncidentId), RespondOp("failure")>>
      [] outcome = "null" ->
            <<AuditOp("COLLECT_LOGS", "SUCCESS", GenerateIncidentId),
              AuditOp("COLLECT_LOGS", "FAILED", GenerateIncidentId), RespondOp("failure")>>
      [] outcome = "archive" ->
            <<AuditOp("COLLECT_LOGS", "SUCCESS", GenerateIncidentId),
              DownloadOp, RespondOp("result")>>
      [] OTHER ->
            <<AuditOp("COLLECT_LOGS", "SUCCESS", GenerateIncidentId), RespondOp("result")>>

\* handleMemDump after the call: result.ProcessName of null throws into the catch.
AfterMemDump(outcome) ==
    CASE outcome = "error" ->
            <<AuditOp("MEMORY_DUMP", "FAILED", ""), RespondOp("failure")>>
      [] outcome = "null" ->
            <<AuditOp("MEMORY_DUMP", "SUCCESS", ""),
              AuditOp("MEMORY_DUMP", "FAILED", ""), RespondOp("failure")>>
      [] OTHER ->
            <<AuditOp("MEMORY_DUMP", "SUCCESS", ""), RespondOp("result")>>

\* confirm_quarantine after the call: result.Hostname of null throws into the catch.
AfterConfirmQuarantine(outcome) ==
    CASE outcome = "error" ->
            <<AuditOp("QUARANTINE", "FAILED", ""), RespondOp("failure")>>
      [] outcome = "null" ->
            <<AuditOp("QUARANTINE", "SUCCESS", GenerateIncidentId),
              AuditOp("QUARANTINE", "FAILED", ""), RespondOp("failure")>>
      [] OTHER ->
            <<AuditOp("QUARANTINE", "SUCCESS", GenerateIncidentId), RespondOp("result")>>

\* release_quarantine after the call: its catch only responds.
AfterReleaseQuarantine(outcome) ==
    IF outcome # "error"
    THEN <<AuditOp("RELEASE_QUARANTINE", "SUCCESS", GenerateIncidentId),
           RespondOp("result")>>
    ELSE <<RespondOp("failure")>>

\* quick_collect after the call: result.EventCount of null throws into the catch.
AfterQuickCollect(outcome) ==
    IF outcome \in {"object", "archive"}
    THEN <<RespondOp("result")>>
    ELSE <<RespondOp("failure")>>

\* quick_status after the call.
AfterQuickStatus(outcome) ==
    IF outcome # "error" THEN <<RespondOp("result")>> ELSE <<RespondOp("failure")>>

\* confirm_kill after the call: its catch only responds.
AfterConfirmKill(outcome) ==
    IF outcome # "error"
    THEN <<AuditOp("KILL_PROCESS", "SUCCESS", ""), RespondOp("result")>>
    ELSE <<RespondOp("failure")>>

\* The try block and catch block that follow the engine call of a handler.
AfterCall(kind, outcome) ==
    CASE kind = "status" -> AfterStatus(outcome)
      [] kind = "release" -> AfterRelease(outcome)
      [] kind = "collect" -> AfterCollect(outcome)
      [] kind = "memdump" -> AfterMemDump(outcome)
      [] kind = "confirm_quarantine" -> AfterConfirmQuarantine(outcome)
      [] kind = "release_quarantine" -> AfterReleaseQuarantine(outcome)
      [] kind = "quick_collect" -> AfterQuickCollect(outcome)
      [] kind = "quick_status" -> AfterQuickStatus(outcome)
      [] kind = "confirm_kill" -> AfterConfirmKill(outcome)
      [] OTHER -> <<>>

\* The buttons of the confirmation handleQuarantine sends,
QuarantineButtons(userId, target) ==
    {Button(id, userId, target, "") : id \in {"confirm_quarantine", "cancel_quarantine"}}
\* of the confirmation handleKill sends,
KillButtons(userId, target, processId) ==
    {Button(id, userId, target, processId) : id \in {"confirm_kill", "cancel_kill"}}
\* and of the message confirm_quarantine sends after a quarantine.
QuickActionButtons(userId, target) ==
    {Button(id, userId, target, "")
        : id \in {"release_quarantine", "quick_collect", "quick_status"}}

\* The buttons that share a message with a button: respond({replace_original:
\* true, ...}) takes them all away.
MessageOf(btn) ==
    CASE btn.button \in {"confirm_quarantine", "cancel_quarantine"} ->
            QuarantineButtons(btn.user, btn.target)
      [] btn.button \in {"confirm_kill", "cancel_kill"} ->
            KillButtons(btn.user, btn.target, btn.pid)
      [] OTHER -> QuickActionButtons(btn.user, btn.target)

\* The roles.json files the pipeline is run with: one that gives U1 every
\* permission and U2 the default role, one whose IR_ANALYST role may only
\* quarantine, and one that cannot be read.
PipeFiles ==
    { Config("file", DefaultsConfig.roles,
             [u \in Users |-> IF u = "U1" THEN "IR_ANALYST" ELSE ""], "SOC_TIER1", TRUE),
      Config("file",
             [DefaultsConfig.roles EXCEPT !["IR_ANALYST"] = Role({"quarantine"})],
             [u \in Users |-> IF u = "U1" THEN "IR_ANALYST" ELSE ""], "SOC_TIER1", TRUE),
      UnreadableFile }

(***************************************************************************)
(* The audit store: AuditService over logs/audit.log.  fs.appendFileSync   *)
(* either appends the whole line or throws with the file as it was.        *)
(***************************************************************************)
\* The two AuditService objects of the process: the one of the Slack app and
\* the one IncidentService constructs.  Both use the same auditLogPath.
AuditInstances == {"app", "incidentService"}

\* new Date().toISOString() at tick t of the clock (one day, one text per tick).
ClockText ==
    <<"10:00:00.001Z", "10:00:00.002Z", "10:00:00.003Z", "10:00:00.004Z",
      "10:00:00.005Z", "10:00:00.006Z", "10:00:00.007Z", "10:00:00.008Z">>
ToISOString(t) == <<"2025-12-26", "T", ClockText[t]>>

\* new Date(text) for a text toISOString has produced: its tick.
NewDate(text) == CHOOSE t \in DOMAIN ClockText : ToISOString(t) = text

\* Math.random().toString(36).substring(2, 8).toUpperCase(): nothing keeps two
\* calls from returning the same text.
RandomSuffixes == {"K3X9QA", "7ZP0LM"}

\* generateEventId(): IR-YYYYMMDD-XXXXXX
GenerateEventId(t, random) ==
    <<"IR", "-">> \o (IF ToISOString(t)[1] = "2025-12-26" THEN <<"20251226">> ELSE <<>>)
    \o <<"-", random>>

\* The events the handlers pass to log.
AuditEvents ==
    { AuditEvent("STATUS", "U1", "vm1", "SUCCESS", ""),
      AuditEvent("STATUS", "U2", "vm1", "FAILED", ""),
      AuditEvent("QUARANTINE", "U1", "vm2", "SUCCESS", GenerateIncidentId) }

\* const auditEntry = { timestamp, eventId, action, user, target, status,
\* details, error, metadata }
BuildAuditEntry(event, t, random) ==
    JObj(<<K("timestamp"), K("eventId"), K("action"), K("user"), K("target"),
           K("status"), K("details"), K("error"), K("metadata")>>,
         <<JStr(ToISOString(t)),
           JStr(GenerateEventId(t, random)),
           JStr(K(event.action)),
           JObj(<<K("id"), K("name")>>, <<JStr(K(event.userId)), JStr(K("analyst"))>>),
           JStr(K(event.target)),
           JStr(K(event.status)),
           JNull,
           IF event.status = "FAILED" THEN JStr(K("Execution timed out")) ELSE JNull,
           JObj(<<K("hostname"), K("botVersion")>>,
                <<JStr(K("unknown")), JStr(K("1.0.0"))>>)>>)

\* logger[logLevel]('Audit event', {...}) and logger.error('Failed to write
\* audit log', ...): what reaches the process log.
ProcessLogEvent(event) ==
    [level |-> IF event.status = "FAILED" THEN "error" ELSE "info",
     message |-> "Audit event", action |-> event.action, status |-> event.status]
ProcessLogWriteFailure ==
    [level |-> "error", message |-> "Failed to write audit log",
     action |-> "", status |-> ""]

\* const logLine = JSON.stringify(auditEntry) + '\n'
LogLine(entry) == Stringify(entry) \o <<"\n">>

\* A line that does not end with a line break.
AppendUnterminated(file, logLine) == file \o SubSeq(logLine, 1, Len(logLine) - 1)

\* A write that replaces the content of the file (fs.writeFileSync).
WriteFileSync(file, logLine) == logLine

\* fs.appendFileSync(path, logLine)
AppendFileSync(file, logLine) == file \o logLine

\* A log without the try block: the failure of the append reaches the caller.
LogRethrows(entry, appended) ==
    [threw |-> ~appended, v |-> IF appended THEN entry ELSE JUndef]

\* try { append } catch (error) { logger.error(...) }  return auditEntry
LogReturn(entry, appended) == [threw |-> FALSE, v |-> entry]

\* content.trim().split('\n').filter(line => line): the lines that are not
\* empty (the lines log writes have no blanks at either end).
RECURSIVE SplitFrom(_, _)
SplitFrom(content, from) ==
    IF from > Len(content) THEN <<>>
    ELSE LET brk == CHOOSE i \in from..(Len(content) + 1) :
                        /\ i = Len(content) + 1 \/ content[i] = "\n"
                        /\ \A j \in from..(i - 1) : content[j] # "\n"
         IN  (IF brk = from THEN <<>> ELSE <<SubSeq(content, from, brk - 1)>>)
             \o SplitFrom(content, brk + 1)

SplitLines(content) == SplitFrom(content, 1)

\* lines.map(JSON.parse or null).filter(entry => entry !== null)
RECURSIVE ParseLines(_)
ParseLines(lines) ==
    IF lines = <<>> THEN <<>>
    ELSE LET parsed == JsonParse(Head(lines))
         IN  (IF parsed.ok /\ parsed.v # JNull THEN <<parsed.v>> ELSE <<>>)
             \o ParseLines(Tail(lines))

\* The filters of a query: "" (or <<>>, or 0) for one that is not supplied.
Filters(action, userId, target, startDate, endDate, status, limit) ==
    [action |-> action, userId |-> userId, target |-> target,
     startDate |-> startDate, endDate |-> endDate, status |-> status,
     limit |-> limit]
NoFilters == Filters("", "", "", <<>>, <<>>, "", 0)

\* The six if (filters.x) entries = entries.filter(...) statements.
Matches(e, filters) ==
    /\ filters.action # "" => Get(e, K("action")) = JStr(K(filters.action))
    /\ filters.userId # "" => Get(Get(e, K("user")), K("id")) = JStr(K(filters.userId))
    /\ filters.target # "" => Get(e, K("target")) = JStr(K(filters.target))
    /\ filters.startDate # <<>>
          => NewDate(Get(e, K("timestamp")).s) >= NewDate(filters.startDate)
    /\ filters.endDate # <<>>
          => NewDate(Get(e, K("timestamp")).s) <= NewDate(filters.endDate)
    /\ filters.status # "" => Get(e, K("status")) = JStr(K(filters.status))

RECURSIVE FilterEntries(_, _)
FilterEntries(entries, filters) ==
    IF entries = <<>> THEN <<>>
    ELSE (IF Matches(Head(entries), filters) THEN <<Head(entries)>> ELSE <<>>)
         \o FilterEntries(Tail(entries), filters)

\* A sort that leaves the entries in the order of the file.
KeepFileOrder(entries) == entries

\* entries.sort((a, b) => new Date(b.timestamp) - new Date(a.timestamp)): the
\* sort is stable, so entries of one timestamp keep the order of the file.
RECURSIVE InsertByTimestamp(_, _)
InsertByTimestamp(e, sorted) ==
    IF sorted = <<>> THEN <<e>>
    ELSE IF NewDate(Get(Head(sorted), K("timestamp")).s)
                <= NewDate(Get(e, K("timestamp")).s)
         THEN <<e>> \o sorted
         ELSE <<Head(sorted)>> \o InsertByTimestamp(e, Tail(sorted))

RECURSIVE SortLoop(_)
SortLoop(entries) ==
    IF entries = <<>> THEN <<>>
    ELSE InsertByTimestamp(Head(entries), SortLoop(Tail(entries)))

SortByTimestampDesc(entries) == SortLoop(entries)

\* if (filters.limit && filters.limit > 0) entries = entries.slice(0, filters.limit)
ApplyLimit(entries, limit) ==
    IF limit > 0 /\ limit < Len(entries) THEN SubSeq(entries, 1, limit) ELSE entries

\* query(filters)
Query(file, filters) ==
    ApplyLimit(
        SortByTimestampDesc(
            FilterEntries(ParseLines(SplitLines(file)), filters)),
        filters.limit)

\* getSummary(days): the entries since now - days, counted.
GetSummary(file, t, days) ==
    LET entries == Query(file, Filters("", "", "", ToISOString(t - days), <<>>, "", 0))
        succeeded == {i \in DOMAIN entries :
                          Get(entries[i], K("status")) = JStr(K("SUCCESS"))}
    IN  [totalEvents |-> Len(entries),
         SUCCESS |-> Cardinality(succeeded),
         FAILED |-> Len(entries) - Cardinality(succeeded)]

\* exportToCsv(filters): 'No entries found', or the header and one row of
\* cells for each entry.
ExportToCsv(file, filters) ==
    LET entries == Query(file, filters)
        cell(v) == IF Truthy(v) THEN ToStr(v) ELSE <<>>
    IN  IF entries = <<>> THEN <<K("No entries found")>>
        ELSE <<K("Timestamp,Event ID,Action,User ID,User Name,Target,Status,Error")>>
             \o [i \in DOMAIN entries |->
                    <<Get(entries[i], K("timestamp")).s,
                      Get(entries[i], K("eventId")).s,
                      Get(entries[i], K("action")).s,
                      cell(Get(Get(entries[i], K("user")), K("id"))),
                      cell(Get(Get(entries[i], K("user")), K("name"))),
                      cell(Get(entries[i], K("target"))),
                      Get(entries[i], K("status")).s,
                      cell(Get(entries[i], K("error")))>>]

\* The queries made of the store: the six filters, at most two of them
\* supplied or all of them, and a limit of 1 with at most one of them.
QueryFilters ==
    {f \in [action : {"", "STATUS"}, userId : {"", "U1"}, target : {"", "vm1"},
            startDate : {<<>>, ToISOString(3)}, endDate : {<<>>, ToISOString(3)},
            status : {"", "FAILED"}, limit : {0, 1}] :
        LET supplied == (IF f.action # "" THEN 1 ELSE 0) + (IF f.userId # "" THEN 1 ELSE 0)
                        + (IF f.target # "" THEN 1 ELSE 0)
                        + (IF f.startDate # <<>> THEN 1 ELSE 0)
                        + (IF f.endDate # <<>> THEN 1 ELSE 0)
                        + (IF f.status # "" THEN 1 ELSE 0)
        IN  IF f.limit = 0 THEN supplied <= 2 \/ supplied = 6 ELSE supplied <= 1}

\* One call of an AuditService method and what came of it.
Call(op, by, arg, appended, threw, result) ==
    [op |-> op, by |-> by, arg |-> arg, appended |-> appended, threw |-> threw,
     result |-> result]
NoCall == Call("none", "", "", FALSE, FALSE, <<>>)

(***************************************************************************)
(* Incidents: IncidentService over its activeIncidents map                 *)
(***************************************************************************)
\* generateIncidentId(): INC-YYYYMMDD-XXXX with XXXX random; two calls may
\* return the same identifier.
IncidentIds == {"INC-20251226-1000", "INC-20251226-2000"}

\* activeIncidents.get(id) of an id that is not in the map: undefined.
NoIncident == [status |-> "none"]
NoIncidents == [id \in IncidentIds |-> NoIncident]

\* The statuses a caller may pass to updateIncidentStatus: any string.
StatusArgs == {"OPEN", "CLOSED", "INVESTIGATING"}

\* createIncident(params): the incident it stores under its id.  A field that
\* is not set yet is 0 (a time) or "" (a text).
CreateIncident(map, id, params, now) ==
    [map EXCEPT ![id] =
        [status |-> "OPEN", type |-> params.type, target |-> params.target,
         createdBy |-> params.userId, createdAt |-> now, updatedAt |-> 0,
         actions |-> <<>>, notes |-> <<>>,
         closedAt |-> 0, closedBy |-> "", resolution |-> ""]]

\* updateIncidentStatus(incidentId, status, note); note "" stands for null.
UpdateIncidentStatus(map, id, status, note, now) ==
    IF map[id] = NoIncident THEN map
    ELSE [map EXCEPT ![id].status = status,
                     ![id].updatedAt = now,
                     ![id].notes = IF note # ""
                                   THEN Append(@, [text |-> note, timestamp |-> now])
                                   ELSE @]

\* An addIncidentAction that opens an incident for an id it does not know.
AddIncidentActionAnyId(map, id, action, now) ==
    [map EXCEPT ![id] =
        IF @ = NoIncident
        THEN [status |-> "OPEN", type |-> "", target |-> "",
              createdBy |-> "", createdAt |-> now, updatedAt |-> 0,
              actions |-> <<[action |-> action, timestamp |-> now]>>, notes |-> <<>>,
              closedAt |-> 0, closedBy |-> "", resolution |-> ""]
        ELSE [@ EXCEPT !.actions = Append(@, [action |-> action, timestamp |-> now])]]

\* addIncidentAction(incidentId, action)
AddIncidentAction(map, id, action, now) ==
    IF map[id] = NoIncident THEN map
    ELSE [map EXCEPT ![id].actions = Append(@, [action |-> action, timestamp |-> now])]

\* closeIncident(incidentId, resolution, closedBy)
CloseIncident(map, id, resolution, closedBy, now) ==
    IF map[id] = NoIncident THEN map
    ELSE [map EXCEPT ![id].status = "CLOSED",
                     ![id].closedAt = now,
                     ![id].closedBy = closedBy,
                     ![id].resolution = resolution]

\* One call of an IncidentService method: what it returned ("incident" for
\* the stored incident, "null") and whether it threw.
IncidentCall(op, id, before, result, threw) ==
    [op |-> op, id |-> id, before |-> before, result |-> result, threw |-> threw]
NoIncidentCall == IncidentCall("none", "", NoIncidents, "null", FALSE)

(***************************************************************************)
(* Targets: resolveTarget of both services and validateTarget.  A target   *)
(* identifier is a sequence of characters.                                 *)
(***************************************************************************)
\* The texts of the identifiers, names and addresses used below.
TargetText ==
    [ip5  |-> <<"1", "0", ".", "0", ".", "0", ".", "5">>,
     ip7  |-> <<"1", "0", ".", "0", ".", "0", ".", "7">>,
     ip11 |-> <<"1", "0", ".", "0", ".", "1", ".", "1">>,
     web  |-> <<"w", "e", "b">>,
     Web  |-> <<"W", "e", "b">>,
     dc_1 |-> <<"d", "c", "_", "1">>,
     gw   |-> <<"g", "w">>,
     db   |-> <<"d", "b">>,
     WEB  |-> <<"W", "E", "B">>,
     dc   |-> <<"d", "c">>,
     edge |-> <<"e", "d", "g", "e">>]

UpperChars == {"W", "E", "B"}
LowerChars == {"w", "e", "b", "d", "c", "g"}

\* target.toLowerCase()
ToLowerCase(s) ==
    [i \in 1..Len(s) |->
        CASE s[i] = "W" -> "w" [] s[i] = "E" -> "e" [] s[i] = "B" -> "b" [] OTHER -> s[i]]

\* /^\d{1,3}\.\d{1,3}\.\d{1,3}\.\d{1,3}$/ and /^(\d{1,3}\.){3}\d{1,3}$/: three
\* dots, and between them (and the ends) one to three digits.
IsIpForm(s) ==
    LET dots == {i \in 1..Len(s) : s[i] = "."}
        ends == {0} \cup dots \cup {Len(s) + 1}
    IN  /\ Cardinality(dots) = 3
        /\ \A i \in 1..Len(s) : s[i] \in Digits \cup {"."}
        /\ \A a, b \in ends :
              (a < b /\ ~\E c \in ends : a < c /\ c < b) => (b - a - 1) \in 1..3

\* /^[a-zA-Z0-9][a-zA-Z0-9\-]{0,61}[a-zA-Z0-9]?$/
IsHostname(s) ==
    /\ Len(s) \in 1..63
    /\ s[1] \in Digits \cup LowerChars \cup UpperChars
    /\ \A i \in 2..Len(s) : s[i] \in Digits \cup LowerChars \cup UpperChars \cup {"-"}

\* table[key] of an object of targets.json: the value, or <<>> (undefined)
\* when the object has no such property.
Lookup(table, key) ==
    IF \E e \in table : e.key = key
    THEN (CHOOSE e \in table : e.key = key).value
    ELSE <<>>

\* The aliases (alias -> target name) and targets (name -> ip) a targets.json
\* may hold: aliases spelled in lower case and in mixed case, an alias of a
\* name that is no target, and keys that have the form of an address.
AliasEntries ==
    { [key |-> TargetText.web, value |-> TargetText.WEB],
      [key |-> TargetText.Web, value |-> TargetText.WEB],
      [key |-> TargetText.dc_1, value |-> TargetText.dc],
      [key |-> TargetText.gw, value |-> TargetText.edge],
      [key |-> TargetText.ip5, value |-> TargetText.dc] }
TargetEntries ==
    { [key |-> TargetText.WEB, value |-> TargetText.ip7],
      [key |-> TargetText.dc, value |-> TargetText.ip11],
      [key |-> TargetText.ip5, value |-> TargetText.ip11] }

\* JSON.parse of targets.json, or { targets: {}, aliases: {} } when it cannot
\* be loaded.
TargetsConfig(aliases, targets) == [aliases |-> aliases, targets |-> targets]
NoTargetsConfig == TargetsConfig({}, {})
TargetsConfigs ==
    {TargetsConfig(a, t) : a \in SUBSET AliasEntries, t \in SUBSET TargetEntries}

\* The identifiers a caller may supply.
TargetIds ==
    {TargetText.ip5, TargetText.web, TargetText.Web, TargetText.dc_1,
     TargetText.gw, TargetText.db, TargetText.WEB}

\* IncidentService.resolveTarget
IncidentResolveTarget(config, target) ==
    LET aliased == Lookup(config.aliases, ToLowerCase(target))
        name == IF aliased # <<>> THEN aliased ELSE target
        ip == Lookup(config.targets, name)
    IN  IF ip # <<>> THEN ip ELSE name

\* PowerShellService.resolveTarget
ResolveTarget(config, target) ==
    IF IsIpForm(target) THEN target ELSE IncidentResolveTarget(config, target)

\* IncidentService.validateTarget; testConnection returns reachable and never
\* throws.  tested: testConnection has been called.
ValidateTarget(config, target, reachable) ==
    LET resolved == IncidentResolveTarget(config, target)
    IN  IF ~IsIpForm(resolved) /\ ~IsHostname(resolved)
        THEN [valid |-> FALSE, resolved |-> <<>>, error |-> "Invalid target format",
              tested |-> FALSE]
        ELSE [valid |-> reachable, resolved |-> resolved,
              error |-> IF reachable THEN "" ELSE "Target not reachable via WinRM",
              tested |-> TRUE]

\* One call and what it returned.
TargetCall(op, result) == [op |-> op, result |-> result]
NoTargetCall == TargetCall("none", <<>>)

(***************************************************************************)
(* executeRemoteScript: the command text it builds from the credentials    *)
(* and the parameters, and the message a handler sends when it fails.      *)
(* Text that is read character by character is a sequence of characters;   *)
(* the fixed text of the template is one token per piece.                  *)
(***************************************************************************)
MaxElements == 2
MaxNumber == 12

\* process.env.IR_PASSWORD
Passwords == {<<"s", "3">>, <<"p", "'", "w">>}

\* The strings a parameter or an array element may be.
ParamStrings ==
    {<<>>, <<"a">>, <<"'">>, <<"a", "'">>, <<"'", "a">>, <<"a", "a">>, <<"'", "'">>}

\* A parameter value: typeof value and Array.isArray(value) tell the kinds apart.
BooleanValue(b) == [t |-> "boolean", b |-> b, n |-> 0, s |-> <<>>, es |-> <<>>]
NumberValue(n) == [t |-> "number", b |-> FALSE, n |-> n, s |-> <<>>, es |-> <<>>]
StringValue(s) == [t |-> "string", b |-> FALSE, n |-> 0, s |-> s, es |-> <<>>]
ArrayValue(es) == [t |-> "array", b |-> FALSE, n |-> 0, s |-> <<>>, es |-> es]

ParamValues ==
    {BooleanValue(b) : b \in BOOLEAN}
    \cup {NumberValue(n) : n \in {-1, 0, 7, MaxNumber}}
    \cup {StringValue(s) : s \in ParamStrings}
    \cup UNION {{ArrayValue(es) : es \in [1..n -> ParamStrings]} : n \in 1..MaxElements}

\* The params objects the handlers pass: one parameter, or Isolate and
\* AllowedHosts (the elements of ALLOWED_MANAGEMENT_IPS.split(',')).
ParamObjects ==
    {<<[key |-> "P", value |-> v]>> : v \in ParamValues}
    \cup {<<[key |-> "Isolate", value |-> BooleanValue(TRUE)],
            [key |-> "AllowedHosts", value |-> v]>>
          : v \in {w \in ParamValues : w.t = "array"}}

\* s.replace(/'/g, "''")
RECURSIVE EscapeQuotes(_)
EscapeQuotes(s) ==
    IF s = <<>> THEN <<>>
    ELSE (IF Head(s) = "'" THEN <<"'", "'">> ELSE <<Head(s)>>) \o EscapeQuotes(Tail(s))


\* the number inside a template literal: String(value)
DigitText == <<"0", "1", "2", "3", "4", "5", "6", "7", "8", "9">>
RECURSIVE DecimalText(_)
DecimalText(n) ==
    IF n < 0 THEN <<"-">> \o DecimalText(-n)
    ELSE IF n < 10 THEN <<DigitText[n + 1]>>
    ELSE DecimalText(n \div 10) \o <<DigitText[(n % 10) + 1]>>

\* value.join("','")
RECURSIVE JoinQuoted(_, _)
JoinQuoted(es, i) ==
    IF i > Len(es) THEN <<>>
    ELSE (IF i > 1 THEN <<"'", ",", "'">> ELSE <<>>) \o es[i] \o JoinQuoted(es, i + 1)

\* The callback of the map over Object.entries(params).
ParamDeclaration(key, value) ==
    <<"$", key, " = ">> \o
    CASE value.t = "boolean" -> <<"$", IF value.b THEN "true" ELSE "false">>
      [] value.t = "array" -> <<"@", "(", "'">> \o JoinQuoted(value.es, 1) \o <<"'", ")">>
      [] value.t = "number" -> DecimalText(value.n)
      [] OTHER -> <<"'">> \o EscapeQuotes(value.s) \o <<"'">>

\* .join('; ')
RECURSIVE JoinDeclarations(_, _)
JoinDeclarations(ds, i) ==
    IF i > Len(ds) THEN <<>>
    ELSE (IF i > 1 THEN <<"; ">> ELSE <<>>) \o ds[i] \o JoinDeclarations(ds, i + 1)

\* psCommand
PsCommand(password, declarations) ==
    <<"$ErrorActionPreference = 'Stop'",
      "$securePassword = ConvertTo-SecureString '">>
    \o EscapeQuotes(password)
    \o <<"' -AsPlainText -Force",
         "$credential = New-Object System.Management.Automation.PSCredential('",
         "IR_USERNAME", "', $securePassword)",
         "try { $result = Invoke-Command -ComputerName '", "resolvedTarget",
         "' -Credential $credential -ScriptBlock {">>
    \o JoinDeclarations(declarations, 1)
    \o <<"scriptContent",
         "} @{ Success = $true; Data = $result } | ConvertTo-Json -Depth 10 -Compress",
         "} catch { @{ Success = $false; Error = $_.Exception.Message; Details = $_.Exception.ToString() } | ConvertTo-Json -Compress }">>

\* throw new Error('Script file not found: ' + scriptPath) when readFile fails
ScriptNotFound == Rejected(<<"Script file not found:", "scriptPath">>)

\* An executeRemoteScript that goes on to execute() after a failed read.
SpawnsUnread(readable) == 1

\* The calls of spawn one executeRemoteScript makes: one in execute(), which
\* is reached only when the script file has been read.
Spawns(readable) == IF readable THEN 1 ELSE 0

\* What powershell.exe may write and exit with when it is given the command:
\* a result, a failure of the remote side, and errors of the shell itself,
\* which quote the text of the command they were given.
ChildRunKinds == {"result", "remote failure", "stderr", "stderr quoting", "stdout quoting"}
ChildRun(kind, command) ==
    CASE kind = "result" ->
            [out |-> Stringify(SuccessEnvelope(JObj(<<K("Hostname")>>, <<JStr(K("host"))>>))),
             err |-> <<>>, code |-> "0"]
      [] kind = "remote failure" ->
            [out |-> Stringify(FailureEnvelope(JStr(K("Access is denied")))),
             err |-> <<>>, code |-> "0"]
      [] kind = "stderr" ->
            [out |-> <<>>, err |-> <<"Connecting to remote server failed">>, code |-> "1"]
      [] kind = "stderr quoting" ->
            [out |-> <<>>, err |-> <<"ParserError:">> \o command, code |-> "1"]
      [] OTHER ->
            [out |-> <<"The string is missing the terminator:">> \o command,
             err |-> <<>>, code |-> "1"]

\* The text of the message a handler passes to respond once the call settled:
\* the formatted result, or error.message between code fences.
HandlerMessage(outcome) ==
    IF outcome.kind = "resolve" THEN <<"formatted result">>
    ELSE <<"(code fence)">> \o outcome.m \o <<"(code fence)">>

\* text.includes(part)
Contains(text, part) ==
    \E i \in 1..(Len(text) - Len(part) + 1) : SubSeq(text, i, i + Len(part) - 1) = part

(***************************************************************************)
(* reloadConfig and checkPermission as the event loop runs them: one       *)
(* statement at a time, and no other task before the running one returns   *)
(***************************************************************************)
\* The roles.json files reloadConfig may find: they differ in the flag, in
\* the role of U1 and in what the role of U1 permits.
ReloadFiles ==
    { Config("file", DefaultsConfig.roles,
             [u \in Users |-> IF u = "U1" THEN "IR_ANALYST" ELSE ""], "SOC_TIER1", TRUE),
      Config("file", DefaultsConfig.roles,
             [u \in Users |-> IF u = "U1" THEN "SOC_TIER1" ELSE ""], "SOC_TIER2", TRUE),
      Config("file", [DefaultsConfig.roles EXCEPT !["IR_ANALYST"] = Role({"status"})],
             [u \in Users |-> IF u = "U1" THEN "IR_ANALYST" ELSE ""], "SOC_TIER1", TRUE),
      Config("file", DefaultsConfig.roles, NoUsers, "SOC_TIER1", FALSE),
      UnreadableFile }

\* A call of checkPermission: its arguments, the configuration object each
\* of its three loadRolesConfig() calls returned, the role and the result.
PermissionCheck(userId, action, flagFrom, roleFrom, permsFrom, role, result) ==
    [userId |-> userId, action |-> action, flagFrom |-> flagFrom, roleFrom |-> roleFrom,
     permsFrom |-> permsFrom, role |-> role, result |-> result]
NoCheck == PermissionCheck("", "", NullConfig, NullConfig, NullConfig, "", FALSE)

\* The event loop starts a task only when no task is running.
CanRun(task) == gRunning \in {"none", task}

\* A function body in which every statement is awaited: the event loop is
\* free after each of them.
AfterAwaitedStatement(task, returned) == "none"

\* reloadConfig and the body of checkPermission hold no await: the event loop
\* is free again only when the function has returned.
AfterStatement(task, returned) == IF returned THEN "none" ELSE task
(***************************************************************************)
(* Each specification drives one part of the state; the rest stays off.    *)
(***************************************************************************)
NormOff ==
    /\ nV = JUndef
    /\ nStdout = <<>>
    /\ nCode = "0"
    /\ nOut = Resolved(JUndef)
    /\ nStage = "off"

RawOff ==
    /\ rInput = [kind |-> "none", v |-> JUndef]
    /\ rStdout = <<>> /\ rStderr = <<>> /\ rCode = "0"
    /\ rOut = Pending /\ rUnwraps = 0 /\ rReparses = 0
    /\ rStage = "off"

CfgOff == rolesFile = UnreadableFile /\ rolesConfig = NullConfig
AuthOff == aUser = "" /\ aAction = "" /\ aResult = FALSE /\ aStage = "none"
ExecOff ==
    /\ eChild = "none" /\ eOutLeft = <<>> /\ eErrLeft = <<>>
    /\ eStdout = <<>> /\ eStderr = <<>> /\ eExit = ""
    /\ eTimer = "unset" /\ ePromise = Pending /\ eBy = "none"
    /\ eKills = 0 /\ eCalls = 0 /\ eClosed = FALSE /\ eErrorEmitted = FALSE

PipeOff ==
    /\ hStage = "idle" /\ hReq = NoRequest /\ hResult = "" /\ hTodo = <<>>
    /\ hGate = <<>> /\ hInvoked = <<>> /\ hAudit = <<>> /\ hSent = <<>>
    /\ hAppendFailed = FALSE /\ offered = {}

StoreOff ==
    /\ sFile = <<>> /\ sClock = 0 /\ sCalls = 0 /\ sReads = 0
    /\ sProcessLog = <<>> /\ sWritten = <<>> /\ sLast = NoCall

IncidentOff == iMap = NoIncidents /\ iCalls = 0 /\ iLast = NoIncidentCall

TargetOff == tConfig = NoTargetsConfig /\ tTarget = <<>> /\ tLast = NoTargetCall
CommandOff ==
    /\ cPassword = <<>> /\ cParams = <<>> /\ cDeclarations = <<>> /\ cCommand = <<>>
    /\ cOutcome = Pending /\ cMessage = <<>> /\ cStage = "off" /\ cSpawns = 0
ReloadOff ==
    /\ gRunning = "none" /\ gReloadPc = "idle" /\ gCheckPc = "idle" /\ gCheck = NoCheck
(***************************************************************************)
(* Specification SpecNorm: the normalization round trip                    *)
(***************************************************************************)
NormInit ==
    /\ RawOff /\ CfgOff /\ AuthOff /\ ExecOff /\ PipeOff /\ StoreOff /\ IncidentOff
    /\ TargetOff /\ CommandOff /\ ReloadOff
    /\ nV \in InputValues
    /\ nStdout = <<>>
    /\ nCode = "0"
    /\ nOut = Resolved(JUndef)
    /\ nStage = "value"

\* The remote side wraps and encodes V (ConvertTo-Json -Compress).
NormEncode ==
    /\ nStage = "value"
    /\ nStdout' = Stringify(SuccessEnvelope(TransportEnvelope(nV)))
    /\ nStage' = "encoded"
    /\ UNCHANGED <<nV, nCode, nOut, exceptNorm>>

\* The child closes with some exit code and the handler normalizes stdout.
NormClose ==
    /\ nStage = "encoded"
    /\ \E code \in ExitCodes :
          /\ nCode' = code
          /\ nOut' = CloseOutcome(nStdout, <<>>, code)
    /\ nStage' = "normalized"
    /\ UNCHANGED <<nV, nStdout, exceptNorm>>

NormNext == NormEncode \/ NormClose

SpecNorm == NormInit /\ [][NormNext]_vars


(***************************************************************************)
(* Specification SpecClose: one 'close' event of the execution engine, for *)
(* every kind of output and every exit code                                *)
(***************************************************************************)
CloseInit ==
    /\ NormOff /\ CfgOff /\ AuthOff /\ ExecOff /\ PipeOff /\ StoreOff /\ IncidentOff
    /\ TargetOff /\ CommandOff /\ ReloadOff
    /\ rInput \in CloseInputs
    /\ rStdout = <<>> /\ rStderr = <<>> /\ rCode = "0"
    /\ rOut = Pending /\ rUnwraps = 0 /\ rReparses = 0
    /\ rStage = "input"

\* The command writes its output; stdout.on('data') and stderr.on('data')
\* collect it.
CloseWrite(stderr) ==
    /\ rStage = "input"
    /\ rStdout' = EncodeInput(rInput)
    /\ rStderr' = stderr
    /\ rStage' = "written"
    /\ UNCHANGED <<rInput, rCode, rOut, rUnwraps, rReparses, exceptRaw>>

\* child.on('close', (code) => ...)
CloseHandler(code) ==
    /\ rStage = "written"
    /\ rCode' = code
    /\ rOut' = CloseOutcome(rStdout, rStderr, code)
    /\ rUnwraps' = LoopCounts(rStdout).unwraps
    /\ rReparses' = LoopCounts(rStdout).reparses
    /\ rStage' = "closed"
    /\ UNCHANGED <<rInput, rStdout, rStderr, exceptRaw>>

CloseNext ==
    \/ \E stderr \in {<<>>, <<"warning">>} : CloseWrite(stderr)
    \/ \E code \in ExitCodes : CloseHandler(code)

SpecClose == CloseInit /\ [][CloseNext]_vars
(***************************************************************************)
(* Specification SpecAuth: the authorization gate and its configuration    *)
(***************************************************************************)
\* Files the administrator may put in place of roles.json while the bot runs.
EditedFiles ==
    { UnreadableFile,
      Config("file", DefaultsConfig.roles, [u \in Users |-> IF u = "U1" THEN "IR_ANALYST" ELSE ""],
             "SOC_TIER1", TRUE),
      Config("file", DefaultsConfig.roles, NoUsers, "", TRUE) }

AuthInit ==
    /\ NormOff /\ RawOff /\ ExecOff /\ PipeOff /\ StoreOff /\ IncidentOff
    /\ TargetOff /\ CommandOff /\ ReloadOff
    /\ rolesFile \in FileConfigs \cup {UnreadableFile}
    /\ rolesConfig = NullConfig
    /\ AuthOff

\* checkPermission(userId, action)
CheckPermission(userId, action) ==
    LET config == LoadRolesConfig(rolesConfig, rolesFile)
    IN  /\ rolesConfig' = config
        /\ aUser' = userId
        /\ aAction' = action
        /\ aResult' = HasPermission(config, userId, action)
        /\ aStage' = "checked"
        /\ UNCHANGED <<rolesFile, exceptAuth>>

\* reloadConfig(): rolesConfig = null; loadRolesConfig()
ReloadConfig ==
    /\ rolesConfig' = LoadRolesConfig(NullConfig, rolesFile)
    /\ aStage' = "none"
    /\ UNCHANGED <<rolesFile, aUser, aAction, aResult, exceptAuth>>

\* The environment replaces roles.json.
EditRolesFile(file) ==
    /\ file # rolesFile
    /\ rolesFile' = file
    /\ UNCHANGED <<rolesConfig, authVars, exceptAuth>>

AuthNext ==
    \/ \E u \in Users, a \in Permissions : CheckPermission(u, a)
    \/ ReloadConfig
    \/ \E f \in EditedFiles : EditRolesFile(f)

SpecAuth == AuthInit /\ [][AuthNext]_vars

(***************************************************************************)
(* Specification SpecExec: one call of execute(command)                    *)
(***************************************************************************)
ExecInit ==
    /\ NormOff /\ RawOff /\ CfgOff /\ AuthOff /\ PipeOff /\ StoreOff /\ IncidentOff
    /\ TargetOff /\ CommandOff /\ ReloadOff
    /\ ExecOff

\* execute(command): the promise executor spawns the child and arms the timer.
\* spawn() either starts the child, or fails and reports it by an 'error' event
\* on the next tick, or throws (and the executor's exception rejects the promise
\* before the timer is set).
Execute(script, spawned) ==
    /\ eChild = "none" /\ eTimer = "unset" /\ ePromise = Pending
    /\ eChild' = IF spawned = "ok" THEN "running" ELSE "failed"
    /\ eOutLeft' = IF spawned = "ok" THEN script.out ELSE <<>>
    /\ eErrLeft' = IF spawned = "ok" THEN script.err ELSE <<>>
    /\ eTimer' = IF spawned = "throws" THEN "unset" ELSE "armed"
    /\ ePromise' = IF spawned = "throws" THEN SpawnError ELSE Pending
    /\ eBy' = IF spawned = "throws" THEN "spawn" ELSE "none"
    /\ eErrorEmitted' = (spawned = "throws")
    /\ eClosed' = (spawned = "throws")
    /\ UNCHANGED <<eStdout, eStderr, eExit, eKills, eCalls, exceptExec>>

\* ps.stdout.on('data'): the next n tokens of stdout arrive.
StdoutData(n) ==
    /\ eChild \in {"running", "exited"} /\ ~eClosed
    /\ n \in 1..Len(eOutLeft)
    /\ eStdout' = eStdout \o SubSeq(eOutLeft, 1, n)
    /\ eOutLeft' = SubSeq(eOutLeft, n + 1, Len(eOutLeft))
    /\ UNCHANGED <<eChild, eErrLeft, eStderr, eExit, eTimer, ePromise, eBy,
                   eKills, eCalls, eClosed, eErrorEmitted, exceptExec>>

\* ps.stderr.on('data')
StderrData ==
    /\ eChild \in {"running", "exited"} /\ ~eClosed
    /\ eErrLeft # <<>>
    /\ eStderr' = eStderr \o eErrLeft
    /\ eErrLeft' = <<>>
    /\ UNCHANGED <<eChild, eOutLeft, eStdout, eExit, eTimer, ePromise, eBy,
                   eKills, eCalls, eClosed, eErrorEmitted, exceptExec>>

\* The operating system: the child ends, by itself or by a signal it was sent.
\* What it had not written yet is lost when it ends early.
ChildExit(code, early) ==
    /\ eChild = "running"
    /\ code = "null" => eKills > 0
    /\ eChild' = "exited"
    /\ eExit' = code
    /\ eOutLeft' = IF early THEN <<>> ELSE eOutLeft
    /\ eErrLeft' = IF early THEN <<>> ELSE eErrLeft
    /\ UNCHANGED <<eStdout, eStderr, eTimer, ePromise, eBy, eKills, eCalls,
                   eClosed, eErrorEmitted, exceptExec>>

\* ps.on('close'): the child has ended (or was never started) and its pipes
\* are drained.
OnClose ==
    /\ ~eClosed
    /\ \/ eChild = "exited" /\ eOutLeft = <<>> /\ eErrLeft = <<>>
       \/ eChild = "failed" /\ eErrorEmitted
    /\ eClosed' = TRUE
    /\ eTimer' = IF eTimer = "armed" THEN "cleared" ELSE eTimer
    /\ LET code == IF eChild = "failed" THEN SpawnFailedCode ELSE eExit
           outcome == CloseOutcome(eStdout, eStderr, code)
       IN  /\ ePromise' = Settled(ePromise, outcome)
           /\ eBy' = IF ePromise = Pending /\ outcome # Pending THEN "close" ELSE eBy
           /\ eCalls' = IF outcome # Pending THEN eCalls + 1 ELSE eCalls
    /\ UNCHANGED <<eChild, eOutLeft, eErrLeft, eStdout, eStderr, eExit, eKills,
                   eErrorEmitted, exceptExec>>

\* ps.on('error') after a spawn that failed.
OnError ==
    /\ eChild = "failed" /\ ~eErrorEmitted
    /\ eErrorEmitted' = TRUE
    /\ eTimer' = IF eTimer = "armed" THEN "cleared" ELSE eTimer
    /\ ePromise' = Settled(ePromise, SpawnError)
    /\ eBy' = IF ePromise = Pending THEN "error" ELSE eBy
    /\ eCalls' = eCalls + 1
    /\ UNCHANGED <<eChild, eOutLeft, eErrLeft, eStdout, eStderr, eExit, eKills,
                   eClosed, exceptExec>>

\* The timeout callback: ps.kill('SIGTERM'); reject(timeout error).  kill()
\* signals a child that still runs and returns at once; when the signal cannot
\* be sent it emits 'error' synchronously, whose handler rejects first.
TimerFire(killed) ==
    /\ eTimer = "armed"
    /\ eChild \in {"running", "exited"}
    /\ eChild = "exited" => killed
    /\ eTimer' = "fired"
    /\ eKills' = IF eChild = "running" /\ killed THEN eKills + 1 ELSE eKills
    /\ eErrorEmitted' = (eErrorEmitted \/ ~killed)
    /\ ePromise' = Settled(Settled(ePromise, IF killed THEN Pending ELSE KillError),
                           TimeoutError)
    /\ eBy' = IF ePromise # Pending THEN eBy
              ELSE IF killed THEN "timer" ELSE "error"
    /\ eCalls' = eCalls + (IF killed THEN 1 ELSE 2)
    /\ UNCHANGED <<eChild, eOutLeft, eErrLeft, eStdout, eStderr, eExit,
                   eClosed, exceptExec>>

ExecNext ==
    \/ \E script \in ScriptOutputs, spawned \in {"ok", "fails", "throws"} :
          Execute(script, spawned)
    \/ \E n \in 1..Len(eOutLeft) : StdoutData(n)
    \/ StderrData
    \/ \E code \in ExitCodes, early \in BOOLEAN : ChildExit(code, early)
    \/ OnClose
    \/ OnError
    \/ \E killed \in BOOLEAN : TimerFire(killed)

SpecExec == ExecInit /\ [][ExecNext]_vars

\* The event loop runs what is due: a timer that is armed fires, and the
\* 'error' event of a failed spawn reaches its handler.  The child itself is
\* under no obligation to write or to exit.
FairSpecExec ==
    /\ SpecExec
    /\ WF_vars(\E killed \in BOOLEAN : TimerFire(killed))
    /\ WF_vars(OnError)


(***************************************************************************)
(* Specification Spec: the command pipeline, one request at a time.        *)
(* hGate, hInvoked, hAudit and hSent hold what the handler in hand has     *)
(* done for its request; they start empty with every request.              *)
(***************************************************************************)
Init ==
    /\ NormOff /\ RawOff /\ AuthOff /\ ExecOff /\ StoreOff /\ IncidentOff
    /\ TargetOff /\ CommandOff /\ ReloadOff
    /\ rolesFile \in PipeFiles
    /\ rolesConfig = NullConfig
    /\ PipeOff

\* The state a handler leaves when it returns or reaches its engine call.
Handle(req, config, gate, sent, invoked, stage, buttons) ==
    /\ hStage \in {"idle", "done"}
    /\ hReq' = req
    /\ rolesConfig' = config
    /\ hGate' = gate
    /\ hSent' = sent
    /\ hInvoked' = invoked
    /\ hStage' = stage
    /\ offered' = buttons
    /\ hAudit' = <<>>
    /\ hAppendFailed' = FALSE
    /\ hTodo' = <<>>
    /\ hResult' = ""
    /\ UNCHANGED <<rolesFile, exceptPipe>>

\* respond(...); return  -- before checkPermission is reached
Reply(req, message) ==
    Handle(req, rolesConfig, <<>>, <<message>>, <<>>, "done", offered)

\* if (!(await checkPermission(userId, action))) { respond(Access Denied); return }
Refuse(req, config, permission) ==
    Handle(req, config, <<GateCall(req.user, permission, FALSE)>>, <<"denied">>,
           <<>>, "done", offered)

\* respond(loading); await psService.executeRemoteScript(target, script, ...)
Invoke(req, config, gate, script, buttons) ==
    Handle(req, config, gate, <<"loading">>,
           <<EngineCall("executeRemoteScript", script, req.target)>>, "waiting", buttons)

HandleHelp(userId) == Reply(Request("help", userId, "", ""), "help")

HandleTargets(userId) == Reply(Request("targets", userId, "", ""), "targets")

\* A default: that asks the gate before it answers.
UnknownCommandGated(userId, action) ==
    Refuse(Request(action, userId, "", ""), LoadRolesConfig(rolesConfig, rolesFile), action)

\* default: of the switch
UnknownCommand(userId, action) == Reply(Request(action, userId, "", ""), "unknown")

HandleStatus(userId, target) ==
    LET req == Request("status", userId, target, "")
        config == LoadRolesConfig(rolesConfig, rolesFile)
    IN  IF MissingTarget(target) THEN Reply(req, "usage")
        ELSE IF ~HasPermission(config, userId, "status") THEN Refuse(req, config, "status")
        ELSE Invoke(req, config, <<GateCall(userId, "status", TRUE)>>,
                    "Get-SystemInfo.ps1", offered)

HandleQuarantine(userId, target) ==
    LET req == Request("quarantine", userId, target, "")
        config == LoadRolesConfig(rolesConfig, rolesFile)
    IN  IF MissingTarget(target) THEN Reply(req, "usage")
        ELSE IF ~HasPermission(config, userId, "quarantine")
             THEN Refuse(req, config, "quarantine")
        ELSE Handle(req, config, <<GateCall(userId, "quarantine", TRUE)>>, <<"confirm">>,
                    <<>>, "done", offered \cup QuarantineButtons(userId, target))

HandleRelease(userId, target) ==
    LET req == Request("release", userId, target, "")
        config == LoadRolesConfig(rolesConfig, rolesFile)
    IN  IF MissingTarget(target) THEN Reply(req, "usage")
        ELSE IF ~HasPermission(config, userId, "quarantine")
             THEN Refuse(req, config, "quarantine")
        ELSE Invoke(req, config, <<GateCall(userId, "quarantine", TRUE)>>,
                    "Quarantine-Host.ps1", offered)

HandleCollect(userId, target) ==
    LET req == Request("collect", userId, target, "")
        config == LoadRolesConfig(rolesConfig, rolesFile)
    IN  IF MissingTarget(target) THEN Reply(req, "usage")
        ELSE IF ~HasPermission(config, userId, "collect") THEN Refuse(req, config, "collect")
        ELSE Invoke(req, config, <<GateCall(userId, "collect", TRUE)>>,
                    "Collect-Logs.ps1", offered)

\* A handleKill that calls the engine itself once the gate has allowed it.
HandleKillAtOnce(userId, target, processId) ==
    LET req == Request("kill", userId, target, processId)
        config == LoadRolesConfig(rolesConfig, rolesFile)
    IN  IF MissingTargetOrProcess(target, processId) THEN Reply(req, "usage")
        ELSE IF ~HasPermission(config, userId, "kill") THEN Refuse(req, config, "kill")
        ELSE Invoke(req, config, <<GateCall(userId, "kill", TRUE)>>,
                    "Kill-Process.ps1", offered)

HandleKill(userId, target, processId) ==
    LET req == Request("kill", userId, target, processId)
        config == LoadRolesConfig(rolesConfig, rolesFile)
    IN  IF MissingTargetOrProcess(target, processId) THEN Reply(req, "usage")
        ELSE IF ~HasPermission(config, userId, "kill") THEN Refuse(req, config, "kill")
        ELSE Handle(req, config, <<GateCall(userId, "kill", TRUE)>>, <<"confirm">>,
                    <<>>, "done", offered \cup KillButtons(userId, target, processId))

HandleMemDump(userId, target, pid) ==
    LET req == Request("memdump", userId, target, pid)
        config == LoadRolesConfig(rolesConfig, rolesFile)
    IN  IF MissingTargetOrProcess(target, pid) THEN Reply(req, "usage")
        ELSE IF ~HasPermission(config, userId, "memdump") THEN Refuse(req, config, "memdump")
        ELSE Invoke(req, config, <<GateCall(userId, "memdump", TRUE)>>,
                    "Get-MemoryDump.ps1", offered)

\* app.command('/ir', ...): args[2] is there only if args[1] is.
IrCommand(userId, action, target, arg2) ==
    /\ arg2 # "" => target # ""
    /\ CASE action = "help" -> HandleHelp(userId)
         [] action = "targets" -> HandleTargets(userId)
         [] action = "status" -> HandleStatus(userId, target)
         [] action = "quarantine" -> HandleQuarantine(userId, target)
         [] action = "collect" -> HandleCollect(userId, target)
         [] action = "kill" -> HandleKill(userId, target, arg2)
         [] action = "memdump" -> HandleMemDump(userId, target, arg2)
         [] action = "release" -> HandleRelease(userId, target)
         [] OTHER -> UnknownCommand(userId, action)

\* A click on a button that calls the engine: app.action(id, ...) up to the call.
ClickInvoke(btn, script) ==
    /\ btn \in offered
    /\ Invoke(Request(btn.button, btn.user, btn.target, btn.pid), rolesConfig, <<>>,
              script, offered \ MessageOf(btn))

\* A click on a cancel button.
ClickCancel(btn) ==
    /\ btn \in offered
    /\ Handle(Request(btn.button, btn.user, btn.target, btn.pid), rolesConfig, <<>>,
              <<"cancelled">>, <<>>, "done", offered \ MessageOf(btn))

ConfirmQuarantine(btn) ==
    btn.button = "confirm_quarantine" /\ ClickInvoke(btn, "Quarantine-Host.ps1")
CancelQuarantine(btn) ==
    btn.button = "cancel_quarantine" /\ ClickCancel(btn)
ReleaseQuarantine(btn) ==
    btn.button = "release_quarantine" /\ ClickInvoke(btn, "Quarantine-Host.ps1")
QuickCollect(btn) ==
    btn.button = "quick_collect" /\ ClickInvoke(btn, "Collect-Logs.ps1")
QuickStatus(btn) ==
    btn.button = "quick_status" /\ ClickInvoke(btn, "Get-SystemInfo.ps1")
ConfirmKill(btn) ==
    btn.button = "confirm_kill" /\ ClickInvoke(btn, "Kill-Process.ps1")
CancelKill(btn) ==
    btn.button = "cancel_kill" /\ ClickCancel(btn)

\* The promise of executeRemoteScript settles and the handler goes on.
ExecuteSettles(outcome) ==
    /\ hStage = "waiting"
    /\ hResult' = outcome
    /\ hTodo' = AfterCall(hReq.kind, outcome)
    /\ hStage' = "running"
    /\ UNCHANGED <<hReq, hGate, hInvoked, hAudit, hAppendFailed, hSent, offered,
                   cfgVars, exceptPipe>>

\* await auditService.log(event): appendFileSync may fail, and log catches it.
AuditLog(written) ==
    /\ hStage = "running"
    /\ Head(hTodo).op = "audit"
    /\ LET event == AuditEvent(Head(hTodo).action, hReq.user, hReq.target,
                               Head(hTodo).status, Head(hTodo).incidentId)
       IN  hAudit' = IF written THEN Append(hAudit, AuditEntry(event)) ELSE hAudit
    /\ hAppendFailed' = (hAppendFailed \/ ~written)
    /\ hTodo' = Tail(hTodo)
    /\ UNCHANGED <<hStage, hReq, hResult, hGate, hInvoked, hSent, offered, cfgVars,
                   exceptPipe>>

\* handleCollect: await psService.execute(Copy-Item ...) in its own try block.
Download ==
    /\ hStage = "running"
    /\ Head(hTodo).op = "download"
    /\ hInvoked' = Append(hInvoked, EngineCall("execute", "Copy-Item", hReq.target))
    /\ hTodo' = Tail(hTodo)
    /\ UNCHANGED <<hStage, hReq, hResult, hGate, hAudit, hAppendFailed, hSent, offered,
                   cfgVars, exceptPipe>>

\* await respond(...): the last statement of the try block or of the catch block.
Respond ==
    /\ hStage = "running"
    /\ Head(hTodo).op = "respond"
    /\ hSent' = Append(hSent, Head(hTodo).status)
    /\ offered' = IF hReq.kind = "confirm_quarantine" /\ Head(hTodo).status = "result"
                  THEN offered \cup QuickActionButtons(hReq.user, hReq.target)
                  ELSE offered
    /\ hTodo' = Tail(hTodo)
    /\ hStage' = IF Tail(hTodo) = <<>> THEN "done" ELSE "running"
    /\ UNCHANGED <<hReq, hResult, hGate, hInvoked, hAudit, hAppendFailed, cfgVars,
                   exceptPipe>>

Next ==
    \/ \E u \in Users, a \in SlashActions, t \in TargetArgs, p \in ProcessArgs :
          IrCommand(u, a, t, p)
    \/ \E btn \in offered : ConfirmQuarantine(btn)
    \/ \E btn \in offered : CancelQuarantine(btn)
    \/ \E btn \in offered : ReleaseQuarantine(btn)
    \/ \E btn \in offered : QuickCollect(btn)
    \/ \E btn \in offered : QuickStatus(btn)
    \/ \E btn \in offered : ConfirmKill(btn)
    \/ \E btn \in offered : CancelKill(btn)
    \/ \E outcome \in EngineOutcomes : ExecuteSettles(outcome)
    \/ \E written \in BOOLEAN : AuditLog(written)
    \/ Download
    \/ Respond

Spec == Init /\ [][Next]_vars

(***************************************************************************)
(* Specification SpecAudit: the audit store under the calls of the two     *)
(* AuditService instances.  log has no await in its body and appendFileSync *)
(* is synchronous, so a call of log runs to its end before any other        *)
(* handler of the process runs.                                            *)
(***************************************************************************)
AuditInit ==
    /\ NormOff /\ RawOff /\ CfgOff /\ AuthOff /\ ExecOff /\ PipeOff /\ IncidentOff
    /\ TargetOff /\ CommandOff /\ ReloadOff
    /\ sFile = <<>>
    /\ sClock = 2
    /\ sCalls = 0
    /\ sReads = 0
    /\ sProcessLog = <<>>
    /\ sWritten = <<>>
    /\ sLast = NoCall

\* log(event) of one instance, tick ticks after the call before it; the
\* append succeeds or throws.
Log(by, event, random, tick, appended) ==
    LET now == sClock + tick
        auditEntry == BuildAuditEntry(event, now, random)
        returned == LogReturn(auditEntry, appended)
    IN  /\ sCalls < MaxLogCalls
        /\ sCalls' = sCalls + 1
        /\ sReads' = 0
        /\ sClock' = now
        /\ sProcessLog' = sProcessLog \o <<ProcessLogEvent(event)>>
                          \o (IF appended THEN <<>> ELSE <<ProcessLogWriteFailure>>)
        /\ sFile' = IF appended THEN AppendFileSync(sFile, LogLine(auditEntry)) ELSE sFile
        /\ sWritten' = IF appended
                       THEN Append(sWritten, [by |-> by, entry |-> auditEntry])
                       ELSE sWritten
        /\ sLast' = Call("log", by, event, appended, returned.threw, returned.v)
        /\ UNCHANGED exceptStore

\* A call that reads the store and returns: it leaves everything else alone.
Read(op, by, arg, result) ==
    /\ sReads < MaxReads
    /\ sReads' = sReads + 1
    /\ sLast' = Call(op, by, arg, FALSE, FALSE, result)
    /\ UNCHANGED <<sFile, sClock, sCalls, sProcessLog, sWritten, exceptStore>>

\* query(filters)
QueryCall(by, filters) == Read("query", by, filters, Query(sFile, filters))

\* getSummary(days)
GetSummaryCall(by, days) ==
    Read("getSummary", by, days, GetSummary(sFile, sClock, days))

\* exportToCsv(filters)
ExportToCsvCall(by, filters) ==
    Read("exportToCsv", by, filters, ExportToCsv(sFile, filters))

AuditNext ==
    \/ \E by \in AuditInstances, event \in AuditEvents, random \in RandomSuffixes,
          tick \in {0, 1}, appended \in BOOLEAN :
          Log(by, event, random, tick, appended)
    \/ \E filters \in QueryFilters : QueryCall("app", filters)
    \/ \E days \in {0, 1} : GetSummaryCall("app", days)
    \/ \E filters \in {NoFilters, Filters("", "", "", <<>>, <<>>, "FAILED", 0)} :
          ExportToCsvCall("incidentService", filters)

SpecAudit == AuditInit /\ [][AuditNext]_vars

(***************************************************************************)
(* Specification SpecIncident: the incident map under the calls of         *)
(* createIncident, updateIncidentStatus, addIncidentAction and             *)
(* closeIncident.  None of them awaits: each runs to its end.              *)
(***************************************************************************)
IncidentInit ==
    /\ NormOff /\ RawOff /\ CfgOff /\ AuthOff /\ ExecOff /\ PipeOff /\ StoreOff
    /\ TargetOff /\ CommandOff /\ ReloadOff
    /\ iMap = NoIncidents
    /\ iCalls = 0
    /\ iLast = NoIncidentCall

\* A method that looks the incident up, returns null when it is not there
\* and the incident when it is; none of the four throws.
IncidentMethod(op, id, map) ==
    /\ iCalls < MaxIncidentCalls
    /\ iCalls' = iCalls + 1
    /\ iMap' = map
    /\ iLast' = IncidentCall(op, id, iMap,
                             IF op # "createIncident" /\ iMap[id] = NoIncident
                             THEN "null" ELSE "incident",
                             FALSE)
    /\ UNCHANGED exceptIncident

CreateIncidentCall(id, params) ==
    IncidentMethod("createIncident", id, CreateIncident(iMap, id, params, iCalls + 1))

UpdateIncidentStatusCall(id, status, note) ==
    IncidentMethod("updateIncidentStatus", id,
                   UpdateIncidentStatus(iMap, id, status, note, iCalls + 1))

AddIncidentActionCall(id, action) ==
    IncidentMethod("addIncidentAction", id, AddIncidentAction(iMap, id, action, iCalls + 1))

CloseIncidentCall(id, resolution, closedBy) ==
    IncidentMethod("closeIncident", id,
                   CloseIncident(iMap, id, resolution, closedBy, iCalls + 1))

IncidentNext ==
    \/ \E id \in IncidentIds, userId \in Users :
          CreateIncidentCall(id, [type |-> "QUARANTINE", target |-> "vm1", userId |-> userId])
    \/ \E id \in IncidentIds, status \in StatusArgs, note \in {"", "escalated"} :
          UpdateIncidentStatusCall(id, status, note)
    \/ \E id \in IncidentIds, action \in {"quarantine", "collect"} :
          AddIncidentActionCall(id, action)
    \/ \E id \in IncidentIds, resolution \in {"contained", "false positive"},
          closedBy \in Users :
          CloseIncidentCall(id, resolution, closedBy)

SpecIncident == IncidentInit /\ [][IncidentNext]_vars

(***************************************************************************)
(* Specification SpecTarget: the two resolvers and validateTarget, for     *)
(* every targets.json and identifier drawn                                 *)
(***************************************************************************)
TargetInit ==
    /\ NormOff /\ RawOff /\ CfgOff /\ AuthOff /\ ExecOff /\ PipeOff /\ StoreOff
    /\ IncidentOff /\ CommandOff /\ ReloadOff
    /\ tConfig \in TargetsConfigs
    /\ tTarget \in TargetIds
    /\ tLast = NoTargetCall

\* psService.resolveTarget(target)
ResolveTargetCall ==
    /\ tLast' = TargetCall("resolveTarget", ResolveTarget(tConfig, tTarget))
    /\ UNCHANGED <<tConfig, tTarget, exceptTarget>>

\* incidentService.resolveTarget(target)
IncidentResolveTargetCall ==
    /\ tLast' = TargetCall("incidentService.resolveTarget",
                           IncidentResolveTarget(tConfig, tTarget))
    /\ UNCHANGED <<tConfig, tTarget, exceptTarget>>

\* incidentService.validateTarget(target)
ValidateTargetCall(reachable) ==
    /\ tLast' = TargetCall("validateTarget", ValidateTarget(tConfig, tTarget, reachable))
    /\ UNCHANGED <<tConfig, tTarget, exceptTarget>>

TargetNext ==
    \/ ResolveTargetCall
    \/ IncidentResolveTargetCall
    \/ \E reachable \in BOOLEAN : ValidateTargetCall(reachable)

SpecTarget == TargetInit /\ [][TargetNext]_vars

(***************************************************************************)
(* Specification SpecCommand: one call of executeRemoteScript by a         *)
(* handler, from the command it builds to the message the user gets        *)
(***************************************************************************)
CommandInit ==
    /\ NormOff /\ RawOff /\ CfgOff /\ AuthOff /\ ExecOff /\ PipeOff /\ StoreOff
    /\ IncidentOff /\ TargetOff /\ ReloadOff
    /\ cPassword \in Passwords
    /\ cParams \in ParamObjects
    /\ cDeclarations = <<>>
    /\ cCommand = <<>>
    /\ cOutcome = Pending
    /\ cMessage = <<>>
    /\ cStage = "start"
    /\ cSpawns = 0

\* executeRemoteScript up to this.execute(psCommand) and the spawn in it, or
\* up to the throw when the script file cannot be read
ExecuteRemoteScript(readable) ==
    /\ cStage = "start"
    /\ LET declarations ==
               [i \in 1..Len(cParams) |-> ParamDeclaration(cParams[i].key, cParams[i].value)]
       IN  IF readable
           THEN /\ cDeclarations' = declarations
                /\ cCommand' = PsCommand(cPassword, declarations)
                /\ cOutcome' = Pending
                /\ cStage' = "spawned"
           ELSE /\ cOutcome' = ScriptNotFound
                /\ cStage' = "settled"
                /\ UNCHANGED <<cDeclarations, cCommand>>
    /\ cSpawns' = cSpawns + Spawns(readable)
    /\ UNCHANGED <<cPassword, cParams, cMessage, exceptCommand>>

\* ps.on('close')
CommandClose(kind) ==
    /\ cStage = "spawned"
    /\ LET run == ChildRun(kind, cCommand)
       IN  cOutcome' = CloseOutcome(run.out, run.err, run.code)
    /\ cStage' = "settled"
    /\ UNCHANGED <<cPassword, cParams, cDeclarations, cCommand, cMessage, cSpawns,
                   exceptCommand>>

\* the setTimeout callback, ps.on('error')
CommandFails(error) ==
    /\ cStage = "spawned"
    /\ cOutcome' = error
    /\ cStage' = "settled"
    /\ UNCHANGED <<cPassword, cParams, cDeclarations, cCommand, cMessage, cSpawns,
                   exceptCommand>>

\* the handler after await executeRemoteScript: respond in the try or the catch
CommandRespond ==
    /\ cStage = "settled"
    /\ cMessage' = HandlerMessage(cOutcome)
    /\ cStage' = "responded"
    /\ UNCHANGED <<cPassword, cParams, cDeclarations, cCommand, cOutcome, cSpawns,
                   exceptCommand>>

CommandNext ==
    \/ \E readable \in BOOLEAN : ExecuteRemoteScript(readable)
    \/ \E kind \in ChildRunKinds : CommandClose(kind)
    \/ \E error \in {TimeoutError, SpawnError} : CommandFails(error)
    \/ CommandRespond

SpecCommand == CommandInit /\ [][CommandNext]_vars

(***************************************************************************)
(* Specification SpecReload: permission checks of the handlers, reloads    *)
(* of the configuration and edits of roles.json, interleaved as the event  *)
(* loop allows                                                             *)
(***************************************************************************)
ReloadInit ==
    /\ NormOff /\ RawOff /\ AuthOff /\ ExecOff /\ PipeOff /\ StoreOff
    /\ IncidentOff /\ TargetOff /\ CommandOff
    /\ rolesFile \in ReloadFiles
    /\ rolesConfig = NullConfig
    /\ gRunning = "none" /\ gReloadPc = "idle" /\ gCheckPc = "idle"
    /\ gCheck = NoCheck

\* checkPermission: const config = loadRolesConfig(); if
\* (!config.requireAuthentication) return true;
CheckFlag(userId, action) ==
    /\ CanRun("check")
    /\ gCheckPc \in {"idle", "done"}
    /\ LET config == LoadRolesConfig(rolesConfig, rolesFile)
           returned == ~config.requireAuthentication
       IN  /\ rolesConfig' = config
           /\ gCheck' = PermissionCheck(userId, action, config, NullConfig, NullConfig,
                                        "", returned)
           /\ gCheckPc' = IF returned THEN "done" ELSE "flag"
           /\ gRunning' = AfterStatement("check", returned)
    /\ UNCHANGED <<rolesFile, gReloadPc, exceptReload>>

\* checkPermission: const role = getUserRole(userId);
CheckRole ==
    /\ CanRun("check")
    /\ gCheckPc = "flag"
    /\ LET config == LoadRolesConfig(rolesConfig, rolesFile)
       IN  /\ rolesConfig' = config
           /\ gCheck' = [gCheck EXCEPT !.roleFrom = config,
                                       !.role = GetUserRole(config, gCheck.userId)]
    /\ gCheckPc' = "role"
    /\ gRunning' = AfterStatement("check", FALSE)
    /\ UNCHANGED <<rolesFile, gReloadPc, exceptReload>>

\* checkPermission: const permissions = getRolePermissions(role); return
\* permissions.includes(action);
CheckIncludes ==
    /\ CanRun("check")
    /\ gCheckPc = "role"
    /\ LET config == LoadRolesConfig(rolesConfig, rolesFile)
       IN  /\ rolesConfig' = config
           /\ gCheck' = [gCheck EXCEPT
                            !.permsFrom = config,
                            !.result = gCheck.action \in GetRolePermissions(config, gCheck.role)]
    /\ gCheckPc' = "done"
    /\ gRunning' = AfterStatement("check", TRUE)
    /\ UNCHANGED <<rolesFile, gReloadPc, exceptReload>>

\* reloadConfig: rolesConfig = null;
ReloadNull ==
    /\ CanRun("reload")
    /\ gReloadPc \in {"idle", "reloaded"}
    /\ rolesConfig' = NullConfig
    /\ gReloadPc' = "nulled"
    /\ gRunning' = AfterStatement("reload", FALSE)
    /\ UNCHANGED <<rolesFile, gCheckPc, gCheck, exceptReload>>

\* reloadConfig: loadRolesConfig();
ReloadLoad ==
    /\ CanRun("reload")
    /\ gReloadPc = "nulled"
    /\ rolesConfig' = LoadRolesConfig(rolesConfig, rolesFile)
    /\ gReloadPc' = "reloaded"
    /\ gRunning' = AfterStatement("reload", TRUE)
    /\ UNCHANGED <<rolesFile, gCheckPc, gCheck, exceptReload>>

\* The administrator replaces roles.json: another process, at any time.
ReplaceRolesFile(file) ==
    /\ file # rolesFile
    /\ rolesFile' = file
    /\ UNCHANGED <<rolesConfig, reloadVars, exceptReload>>

ReloadNext ==
    \/ \E u \in Users, a \in {"status", "quarantine"} : CheckFlag(u, a)
    \/ CheckRole
    \/ CheckIncludes
    \/ ReloadNull
    \/ ReloadLoad
    \/ \E f \in ReloadFiles : ReplaceRolesFile(f)

SpecReload == ReloadInit /\ [][ReloadNext]_vars
(***************************************************************************)
(* C4  checkPermission decides by flag, role and permission set            *)
(***************************************************************************)
\* C4 as stated: checkPermission returns Allow exactly when the
\* requireAuthentication flag is off, or the action is in the permission set of
\* the actor's role: the assigned role, or the configured default role when the
\* actor is unassigned; a role the role table does not define (and so also a
\* default role the configuration does not name) has the empty permission set.
C4_AllowIffPermittedByConfiguredRole ==
    aStage = "checked" =>
        (aResult <=>
            \/ ~rolesConfig.requireAuthentication
            \/ \E r \in RoleNames :
                  /\ r = (IF rolesConfig.users[aUser] # ""
                          THEN rolesConfig.users[aUser] ELSE rolesConfig.defaultRole)
                  /\ rolesConfig.roles[r].defined
                  /\ aAction \in rolesConfig.roles[r].permissions)

\* The role the gate uses for an actor: the assigned role, else the configured
\* default role, else (the configuration names none) the built-in SOC_TIER1.
C4_RoleOf(config, u) ==
    IF config.users[u] # "" THEN config.users[u]
    ELSE IF config.defaultRole # "" THEN config.defaultRole ELSE "SOC_TIER1"

\* C4 amended: checkPermission returns Allow exactly when the flag is off, or
\* the action is in the permission set of the actor's role, where an unassigned
\* actor has the configured default role and, when none is configured, the role
\* SOC_TIER1; a role the role table does not define has no permissions.
C4_AllowIffFlagOffOrPermitted ==
    aStage = "checked" =>
        (aResult <=>
            \/ ~rolesConfig.requireAuthentication
            \/ \E r \in RoleNames :
                  /\ r = C4_RoleOf(rolesConfig, aUser)
                  /\ rolesConfig.roles[r].defined
                  /\ aAction \in rolesConfig.roles[r].permissions)

\* An unassigned actor was allowed an action through the built-in role, under
\* a configuration that requires authentication and names no default role.
C4_Witness ==
    /\ aStage = "checked"
    /\ rolesConfig.requireAuthentication
    /\ rolesConfig.users[aUser] = ""
    /\ rolesConfig.defaultRole = ""
    /\ aAction = "status"
    /\ aResult

(***************************************************************************)
(* C6  Fail-closed authorization                                           *)
(***************************************************************************)
\* The actions that change or read a host and so need a granted permission.
C6_Privileged == {"quarantine", "collect", "kill", "memdump"}

\* C6: when roles.json cannot be loaded (first load or reloadConfig), no
\* privileged action is allowed to an actor without an assigned role that
\* grants it.  (The fallback configuration assigns no role to anybody.)
C6_FailClosed ==
    (aStage = "checked" /\ rolesConfig.kind = "defaults" /\ aAction \in C6_Privileged)
        => ~aResult


(***************************************************************************)
(* C8  Timeout                                                             *)
(***************************************************************************)
\* C8: once the timeout failure of an invocation has been delivered, the
\* spawned process is no longer running.
C8_TimeoutProcessGone ==
    ePromise = TimeoutError => eChild # "running"

(***************************************************************************)
(* C9  Exactly one invocation result                                       *)
(***************************************************************************)
\* The four kinds of result, by the callback that produced it.
C9_ResultKind ==
    CASE ePromise.kind = "resolve" /\ eBy = "close" -> "canonical value"
      [] ePromise.kind = "reject" /\ eBy = "close" -> "execution error"
      [] ePromise = TimeoutError /\ eBy = "timer" -> "timeout error"
      [] ePromise \in {SpawnError, KillError} /\ eBy \in {"error", "spawn"} -> "spawn error"
      [] OTHER -> "none"

\* C9: under every interleaving of 'close', 'error' and the timeout, the promise
\* of an execute() call is settled, exactly once (a settled promise never
\* changes), with a canonical value, an execution error, a timeout error or a
\* spawn error.
C9_ExactlyOneResult ==
    /\ [](ePromise # Pending => C9_ResultKind # "none")
    /\ [][ePromise # Pending => ePromise' = ePromise]_vars
    /\ [](eChild # "none" => <>(ePromise # Pending))

\* The timeout settled the promise first and the 'close' handler's later call
\* of resolve or reject was ignored.
C9_Witness ==
    /\ ePromise = TimeoutError
    /\ eClosed
    /\ eCalls = 2
    /\ eStdout # <<>>


(***************************************************************************)
(* C35  Close, error and timeout: the first one decides                    *)
(***************************************************************************)
\* C35: when 'close' or 'error' comes before the deadline the timer is
\* cleared: no signal is sent and no timeout error is delivered; when the
\* timeout has delivered its error, a later 'close' does not change it; and
\* a termination signal is sent by the timeout callback only.
C35_FirstEventDecides ==
    /\ [](eTimer = "cleared" => eKills = 0 /\ ePromise # TimeoutError /\ ePromise # Pending)
    /\ [](eBy = "close" => eTimer = "cleared")
    /\ [][eTimer = "cleared" => eTimer' = "cleared" /\ eKills' = 0]_vars
    /\ [][ePromise = TimeoutError => ePromise' = TimeoutError]_vars
    /\ [][eKills' # eKills => eTimer = "armed" /\ eTimer' = "fired"]_vars

\* The timeout came first, sent the signal and delivered its error; the
\* child then ended and 'close' was handled.
C35_Witness ==
    /\ eTimer = "fired"
    /\ eBy = "timer"
    /\ eKills = 1
    /\ eExit = "null"
    /\ eClosed
    /\ ePromise = TimeoutError

(***************************************************************************)
(* C1  Audit before response                                               *)
(***************************************************************************)
\* C1: on every path that invokes the remote procedure, a result message
\* (success or failure) is among the messages sent only when an audit entry for
\* the invocation (its actor, its target) is already in the audit log.  (A
\* failed append is another matter: the statement is made of the requests during
\* which every append succeeded.)
C1_AuditBeforeResult ==
    \A i \in 1..Len(hSent) :
        (hSent[i] \in {"result", "failure"} /\ hInvoked # <<>> /\ ~hAppendFailed)
            => \E j \in 1..Len(hAudit) :
                  hAudit[j].userId = hReq.user /\ hAudit[j].target = hReq.target

(***************************************************************************)
(* C2  Audit completeness                                                  *)
(***************************************************************************)
\* The audit action that belongs to the engine call of a command or button.
C2_ActionOf(kind) ==
    CASE kind \in {"status", "quick_status"} -> "STATUS"
      [] kind = "confirm_quarantine" -> "QUARANTINE"
      [] kind \in {"release", "release_quarantine"} -> "RELEASE_QUARANTINE"
      [] kind \in {"collect", "quick_collect"} -> "COLLECT_LOGS"
      [] kind = "confirm_kill" -> "KILL_PROCESS"
      [] kind = "memdump" -> "MEMORY_DUMP"
      [] OTHER -> ""

\* C2: when a handler has finished (and no append to the audit log failed),
\* every call it made of the execution engine has exactly one audit entry, with
\* the matching action and target.
C2_OneEntryPerEngineCall ==
    (hStage = "done" /\ ~hAppendFailed) =>
        /\ Len(hAudit) = Len(hInvoked)
        /\ \A j \in 1..Len(hAudit) :
              /\ hAudit[j].action = C2_ActionOf(hReq.kind)
              /\ hAudit[j].target = hReq.target

(***************************************************************************)
(* C3  Authorization fail-safe                                             *)
(***************************************************************************)
\* The permission an action needs, for slash commands and buttons alike.
C3_PermissionOf(kind) ==
    CASE kind \in {"status", "quick_status"} -> "status"
      [] kind \in {"quarantine", "confirm_quarantine", "release",
                   "release_quarantine"} -> "quarantine"
      [] kind \in {"collect", "quick_collect"} -> "collect"
      [] kind \in {"kill", "confirm_kill"} -> "kill"
      [] kind = "memdump" -> "memdump"
      [] OTHER -> ""

\* C3: with authentication required, a request by an actor whose role lacks the
\* action's permission causes no remote invocation and no SUCCESS or FAILED
\* audit entry, on slash commands and on button actions.
C3_NoInvocationWithoutPermission ==
    (/\ rolesConfig.requireAuthentication
     /\ C3_PermissionOf(hReq.kind) # ""
     /\ C3_PermissionOf(hReq.kind)
           \notin GetRolePermissions(rolesConfig, GetUserRole(rolesConfig, hReq.user)))
        => /\ hInvoked = <<>>
           /\ \A j \in 1..Len(hAudit) : hAudit[j].status \notin {"SUCCESS", "FAILED"}

(***************************************************************************)
(* C5  Denials are recorded                                                *)
(***************************************************************************)
\* C5: when the handler of a request the gate denied has finished, the audit
\* log holds an entry with outcome DENIED for it.
C5_DeniedIsRecorded ==
    (hStage = "done" /\ \E i \in 1..Len(hGate) : ~hGate[i].allowed)
        => \E j \in 1..Len(hAudit) :
              hAudit[j].status = "DENIED" /\ hAudit[j].userId = hReq.user

(***************************************************************************)
(* C7  Validation before authorization                                     *)
(***************************************************************************)
\* C7: a request for a target-scoped action with no target (for kill and
\* memdump: with no target or no process id) ends in the usage message alone:
\* the gate is not consulted, the engine is not called, nothing is audited.
C7_ValidationBeforeGate ==
    (/\ hReq.kind \in {"status", "quarantine", "release", "collect", "kill", "memdump"}
     /\ \/ hReq.target = ""
        \/ hReq.kind \in {"kill", "memdump"} /\ hReq.pid = "")
        => /\ hStage = "done"
           /\ hSent = <<"usage">>
           /\ hGate = <<>>
           /\ hInvoked = <<>>
           /\ hAudit = <<>>

\* A kill command that names its target but no process was answered with the
\* usage message, under a configuration that would have denied the actor.
C7_Witness ==
    /\ hReq = Request("kill", "U2", "vm1", "")
    /\ rolesFile.requireAuthentication
    /\ hSent = <<"usage">>
    /\ hStage = "done"

(***************************************************************************)
(* C34  One audit outcome per handled command                              *)
(***************************************************************************)
\* C34: the entries the ledger receives for one handled command never hold
\* both a SUCCESS and a FAILED entry.
C34_NeverSuccessAndFailed ==
    ~\E i, j \in DOMAIN hAudit :
        hAudit[i].status = "SUCCESS" /\ hAudit[j].status = "FAILED"

(***************************************************************************)
(* C38  An unknown command is only answered                                *)
(***************************************************************************)
\* The words the switch of the /ir command knows.
C38_Recognized ==
    {"help", "targets", "status", "quarantine", "collect", "kill", "memdump", "release"}

\* C38: a /ir request whose first word is no recognized command is answered
\* with the 'unknown command' message and nothing else: the gate is not
\* asked, the engine is not called and no audit entry is written.
C38_UnknownOnlyAnswered ==
    (hReq.kind \notin C38_Recognized \cup ButtonIds \cup {"none"})
        => /\ hStage = "done"
           /\ hSent = <<"unknown">>
           /\ hGate = <<>>
           /\ hInvoked = <<>>
           /\ hAudit = <<>>
           /\ hTodo = <<>>

\* The request "/ir bogus" has been handled.
C38_Witness ==
    /\ hReq.kind = "bogus"
    /\ hStage = "done"
    /\ hSent = <<"unknown">>

FullyUnwrapped(v) ==
    /\ ~(v.t = "obj" /\ K("value") \in {v.keys[i] : i \in 1..Len(v.keys)}
                     /\ K("PSComputerName") \in {v.keys[i] : i \in 1..Len(v.keys)})
    /\ ~(v.t = "str" /\ \E i \in 1..Len(v.s) :
             /\ v.s[i] \in {"{", "["}
             /\ \A j \in 1..(i - 1) : v.s[j] = " "
             /\ JsonParse(SubSeq(v.s, i, Len(v.s))).ok)

C11_StringPayloadDecoded ==
    (rStage = "closed" /\ rInput.kind = "success" /\ rInput.v.t = "str")
        => LET text == rInput.v.s
               parsed == JsonParse(Trim(text))
           IN  /\ (text # <<>> /\ Head(text) \in {"{", "["} /\ parsed.ok)
                      => rOut = Resolved(parsed.v)
               /\ ~parsed.ok => rOut = Resolved(rInput.v)

\* stdout {"Success":true,"Data":"{\"EventCount\":5}"} has given {EventCount: 5}.
C11_Witness ==
    /\ rStage = "closed"
    /\ rStdout = <<"{", "\"", "Success", "\"", ":", "true", ",",
                   "\"", "Data", "\"", ":",
                   "\"", "{", "\\", "\"", "EventCount", "\\", "\"", ":", "5", "}", "\"",
                   "}">>
    /\ rOut = Resolved(JObj(<<K("EventCount")>>, <<JNum(K("5"))>>))

(***************************************************************************)
(* C12  Empty output                                                       *)
(***************************************************************************)
\* C12: when stdout is empty after trimming, exit code 0 gives a successful
\* invocation whose value is the null/empty result (not an envelope object,
\* not an error), and any other exit code gives a failed invocation.
C12_EmptyOutputIsNull ==
    (rStage = "closed" /\ Trim(rStdout) = <<>>)
        => IF rCode = "0"
           THEN rOut.kind = "resolve" /\ rOut.v \in {JNull, JUndef, JStr(<<>>)}
           ELSE rOut.kind = "reject"

(***************************************************************************)
(* C13  The envelope decides the outcome                                   *)
(***************************************************************************)
\* C13: when the structure parsed from stdout is a failure envelope the
\* invocation fails with the envelope's message, when it is a success
\* envelope the invocation succeeds with a value derived from its payload,
\* and in both cases the outcome is the same for every exit code.
C13_EnvelopeDecides ==
    (rStage = "closed" /\ rInput.kind \in {"success", "failure"})
        => /\ rInput.kind = "failure"
                 => /\ rOut.kind = "reject"
                    /\ (rInput.v.t = "str" /\ rInput.v.s # <<>>) => rOut.m = rInput.v.s
           /\ rInput.kind = "success"
                 => /\ rOut.kind = "resolve"
                    /\ FullyUnwrapped(rInput.v) => rOut.v = rInput.v
           /\ \A code \in ExitCodes : CloseOutcome(rStdout, rStderr, code) = rOut

\* A failure envelope has failed an invocation whose child exited with code 0,
\* with the message of the envelope and not the text of stderr.
C13_Witness ==
    /\ rStage = "closed"
    /\ rInput = [kind |-> "failure", v |-> JStr(K("Access is denied"))]
    /\ rCode = "0"
    /\ rStderr = <<"warning">>
    /\ rOut = Rejected(K("Access is denied"))

(***************************************************************************)
(* C14  A structure that is no envelope                                    *)
(***************************************************************************)
\* C14: when the structured span of stdout parses to a structure with no
\* Success tag, the invocation succeeds and its value is that structure (as
\* the working value of the unwrap and re-parse steps); it is not an error.
C14_BareStructureReturned ==
    (rStage = "closed" /\ rInput.kind = "structure")
        => /\ rOut.kind = "resolve"
           /\ FullyUnwrapped(rInput.v) => rOut.v = rInput.v

(***************************************************************************)
(* C15  Bounded loops                                                      *)
(***************************************************************************)
\* C15: for every payload the unwrap loop and the re-parse loop each run at
\* most 8 iterations.
C15_LoopsBounded ==
    rStage = "closed" => (rUnwraps <= 8 /\ rReparses <= 8)

(***************************************************************************)
(* C16  The audit store is append-only                                     *)
(***************************************************************************)
C16_IsPrefix(a, b) == Len(a) <= Len(b) /\ SubSeq(b, 1, Len(a)) = a

\* C16: across every call of log, query, getSummary and exportToCsv, the
\* records the store held before the call are a prefix of the records it
\* holds after the call.
C16_AppendOnly ==
    [][sFile' = sFile
       \/ C16_IsPrefix(ParseLines(SplitLines(sFile)), ParseLines(SplitLines(sFile')))]_vars

\* A store of two records has been exported.
C16_Witness ==
    /\ sLast.op = "exportToCsv"
    /\ Len(sWritten) = 2
    /\ Len(ParseLines(SplitLines(sFile))) = 2

(***************************************************************************)
(* C17  A failed append is swallowed                                       *)
(***************************************************************************)
\* C17: a call of log whose append fails does not throw, returns the entry
\* it constructed, leaves the store as it was, and has handed the event to
\* the process log before the failure of the append was reported there.
C17_FailedAppendSwallowed ==
    [][(sCalls' # sCalls /\ ~sLast'.appended)
          => /\ sLast'.op = "log"
             /\ ~sLast'.threw
             /\ sLast'.result.t = "obj"
             /\ Get(sLast'.result, K("action")) = JStr(K(sLast'.arg.action))
             /\ Get(sLast'.result, K("target")) = JStr(K(sLast'.arg.target))
             /\ Get(sLast'.result, K("status")) = JStr(K(sLast'.arg.status))
             /\ Get(Get(sLast'.result, K("user")), K("id")) = JStr(K(sLast'.arg.userId))
             /\ Get(sLast'.result, K("timestamp")) = JStr(ToISOString(sClock'))
             /\ sFile' = sFile
             /\ Len(sProcessLog') = Len(sProcessLog) + 2
             /\ sProcessLog'[Len(sProcessLog) + 1].message = "Audit event"
             /\ sProcessLog'[Len(sProcessLog) + 1].action = sLast'.arg.action
             /\ sProcessLog'[Len(sProcessLog) + 2].message = "Failed to write audit log"]_vars

\* An append to a store that holds a record has failed, and log has returned.
C17_Witness ==
    /\ sLast.op = "log"
    /\ ~sLast.appended
    /\ ~sLast.threw
    /\ Len(sWritten) = 1
    /\ sProcessLog[Len(sProcessLog)] = ProcessLogWriteFailure

(***************************************************************************)
(* C18  Event identifiers are unique                                       *)
(***************************************************************************)
\* C18: no two entries appended to the store, by whichever AuditService
\* instance, carry the same eventId.
C18_UniqueEventIds ==
    \A i, j \in DOMAIN sWritten :
        i # j => Get(sWritten[i].entry, K("eventId")) # Get(sWritten[j].entry, K("eventId"))

(***************************************************************************)
(* C19  What a query returns                                               *)
(***************************************************************************)
C19_Time(e) == NewDate(Get(e, K("timestamp")).s)

\* The entry satisfies every filter that is supplied.
C19_Satisfies(e, f) ==
    /\ f.action = "" \/ Get(e, K("action")).s = <<f.action>>
    /\ f.userId = "" \/ Get(Get(e, K("user")), K("id")).s = <<f.userId>>
    /\ f.target = "" \/ Get(e, K("target")).s = <<f.target>>
    /\ f.startDate = <<>> \/ C19_Time(e) >= NewDate(f.startDate)
    /\ f.endDate = <<>> \/ C19_Time(e) <= NewDate(f.endDate)
    /\ f.status = "" \/ Get(e, K("status")).s = <<f.status>>

C19_Count(x, entries) == Cardinality({i \in DOMAIN entries : entries[i] = x})

C20_EveryLineOneEntry ==
    LET lines == SplitLines(sFile)
    IN  /\ sFile = <<>> \/ sFile[Len(sFile)] = "\n"
        /\ Len(lines) = Len(sWritten)
        /\ \A i \in DOMAIN lines :
              LET parsed == JsonParse(lines[i])
              IN  parsed.ok /\ parsed.v = sWritten[i].entry

\* The two instances have each written one of the two lines of the store.
C20_Witness ==
    /\ Len(sWritten) = 2
    /\ sWritten[1].by # sWritten[2].by
    /\ Len(SplitLines(sFile)) = 2

(***************************************************************************)
(* C32  The entry records the incident identifier                          *)
(***************************************************************************)
\* C32: the entry that log writes for an event that carries an incident
\* identifier has that identifier in it.
C32_EntryHasIncidentId ==
    (sLast.op = "log" /\ sLast.appended /\ sLast.arg.incidentId # "")
        => Get(sLast.result, K("incidentId")) = JStr(K(sLast.arg.incidentId))

(***************************************************************************)
(* C21  close on an incident that is not OPEN                              *)
(***************************************************************************)
\* C21: closeIncident on an OPEN incident makes it CLOSED, and closeIncident
\* on an incident that is in the map but not OPEN (a second close) signals
\* an error and leaves the incident, with the closedAt, closedBy and
\* resolution of the first close, as it was.
C21_CloseOnlyOpen ==
    (iLast.op = "closeIncident" /\ iLast.before[iLast.id] # NoIncident)
        => IF iLast.before[iLast.id].status = "OPEN"
           THEN iMap[iLast.id].status = "CLOSED"
           ELSE /\ iLast.threw \/ iLast.result = "null"
                /\ iMap[iLast.id] = iLast.before[iLast.id]

(***************************************************************************)
(* C22  The status of an incident                                          *)
(***************************************************************************)
\* C22: in every reachable state every incident of the map has status OPEN
\* or CLOSED.
C22_StatusOpenOrClosed ==
    \A id \in IncidentIds :
        iMap[id] # NoIncident => iMap[id].status \in {"OPEN", "CLOSED"}

(***************************************************************************)
(* C23  Calls with an unknown incident id                                  *)
(***************************************************************************)
\* C23: addIncidentAction, updateIncidentStatus and closeIncident called with
\* an id that is not in the map return null and leave the map and every
\* incident in it unchanged.
C23_UnknownIdIsNoOp ==
    (/\ iLast.op \in {"addIncidentAction", "updateIncidentStatus", "closeIncident"}
     /\ iLast.before[iLast.id] = NoIncident)
        => /\ iLast.result = "null"
           /\ ~iLast.threw
           /\ iMap = iLast.before

\* An action has been added under an id that is not in a map that holds
\* another incident.
C23_Witness ==
    /\ iLast.op = "addIncidentAction"
    /\ iLast.before[iLast.id] = NoIncident
    /\ \E id \in IncidentIds : iLast.before[id] # NoIncident
    /\ iLast.result = "null"

\* The identifiers that have an incident in the map.
Stored(map) == {id \in IncidentIds : map[id] # NoIncident}

\* C36: createIncident adds one new record and neither replaces nor removes
\* one that is there: the map has one incident more than before the call and
\* every earlier incident is as it was, its actions and notes included.
C36_CreateAddsOne ==
    iLast.op = "createIncident"
        => /\ Cardinality(Stored(iMap)) = Cardinality(Stored(iLast.before)) + 1
           /\ \A id \in Stored(iLast.before) : iMap[id] = iLast.before[id]

\* C37: an incident that was CLOSED before a call of updateIncidentStatus,
\* addIncidentAction or closeIncident is CLOSED after it.
C37_ClosedStaysClosed ==
    (/\ iLast.op \in {"updateIncidentStatus", "addIncidentAction", "closeIncident"}
     /\ iLast.before[iLast.id] # NoIncident
     /\ iLast.before[iLast.id].status = "CLOSED")
        => iMap[iLast.id].status = "CLOSED"

(***************************************************************************)
(* Claims about target resolution and validation                           *)
(***************************************************************************)
\* C24: an identifier in dotted-quad form is returned unchanged by both
\* resolvers, whatever the alias and target tables contain.
C24_AddressUnchanged ==
    (/\ tLast.op \in {"resolveTarget", "incidentService.resolveTarget"}
     /\ IsIpForm(tTarget))
        => tLast.result = tTarget

\* C25: an alias, spelled as the configuration spells it, that maps to a
\* target name with address P resolves to P.
C25_AliasResolves ==
    \A e \in tConfig.aliases :
        (/\ tLast.op = "resolveTarget"
         /\ tTarget = e.key
         /\ Lookup(tConfig.targets, e.value) # <<>>)
            => tLast.result = Lookup(tConfig.targets, e.value)

\* The identifier, through an alias or directly, names a target of the table.
LeadsToKnownTarget(config, target) ==
    \/ Lookup(config.targets, target) # <<>>
    \/ \E e \in config.aliases :
          /\ e.key \in {target, ToLowerCase(target)}
          /\ Lookup(config.targets, e.value) # <<>>

\* C26: an identifier that is not in address form and leads to no known
\* target name is returned exactly as supplied.
C26_UnknownUnchanged ==
    (/\ tLast.op = "resolveTarget"
     /\ ~IsIpForm(tTarget)
     /\ ~LeadsToKnownTarget(tConfig, tTarget))
        => tLast.result = tTarget

\* C27: validation checks the syntax of the identifier as supplied: an
\* identifier that fails it is rejected as an invalid format and no
\* connectivity test is made, also when it is an alias of a well-formed address.
C27_SyntaxOfSupplied ==
    (/\ tLast.op = "validateTarget"
     /\ ~IsIpForm(tTarget)
     /\ ~IsHostname(tTarget))
        => /\ ~tLast.result.valid
           /\ tLast.result.error = "Invalid target format"
           /\ ~tLast.result.tested

(***************************************************************************)
(* Claims about the command text and the failure message                   *)
(***************************************************************************)
\* C28: no message sent to the user contains the password, plain or as it is
\* embedded in the command, whatever way the call failed and whatever the
\* child wrote.
C28_NoCredentialInMessage ==
    cStage = "responded"
        => /\ ~Contains(cMessage, cPassword)
           /\ ~Contains(cMessage, EscapeQuotes(cPassword))

\* PowerShell reading a single-quoted literal whose opening quote is before
\* position i: two quotes stand for one, a single one ends the literal.
\* Returns whether it ended, the string read and the position after it.
RECURSIVE ReadQuoted(_, _, _)
ReadQuoted(text, i, acc) ==
    IF i > Len(text) THEN [ok |-> FALSE, v |-> acc, i |-> i]
    ELSE IF text[i] # "'" THEN ReadQuoted(text, i + 1, Append(acc, text[i]))
    ELSE IF i < Len(text) /\ text[i + 1] = "'" THEN ReadQuoted(text, i + 2, Append(acc, "'"))
    ELSE [ok |-> TRUE, v |-> acc, i |-> i + 1]

\* PowerShell reading 'e1','e2',...) from position i to the end of the text.
RECURSIVE ReadElements(_, _, _)
ReadElements(text, i, acc) ==
    IF i > Len(text) \/ text[i] # "'" THEN [ok |-> FALSE, es |-> acc]
    ELSE LET r == ReadQuoted(text, i + 1, <<>>)
         IN  IF ~r.ok THEN [ok |-> FALSE, es |-> acc]
             ELSE IF r.i < Len(text) /\ text[r.i] = ","
             THEN ReadElements(text, r.i + 1, Append(acc, r.v))
             ELSE IF r.i = Len(text) /\ text[r.i] = ")"
             THEN [ok |-> TRUE, es |-> Append(acc, r.v)]
             ELSE [ok |-> FALSE, es |-> acc]

\* The text is, read as PowerShell reads it, one literal and that literal is
\* the value.
IsLiteralOf(text, value) ==
    CASE value.t = "boolean" -> text = <<"$", IF value.b THEN "true" ELSE "false">>
      [] value.t = "number" ->
            /\ text # <<>>
            /\ \A i \in 1..Len(text) :
                  text[i] \in {DigitText[d] : d \in 1..10} \cup {"-"}
      [] value.t = "string" ->
            /\ Len(text) >= 2 /\ text[1] = "'"
            /\ LET r == ReadQuoted(text, 2, <<>>)
               IN  r.ok /\ r.i = Len(text) + 1 /\ r.v = value.s
      [] OTHER ->
            /\ Len(text) >= 4 /\ text[1] = "@" /\ text[2] = "("
            /\ ReadElements(text, 3, <<>>) = [ok |-> TRUE, es |-> value.es]

\* C29: every parameter value is serialized as a self-contained literal:
\* strings and the elements of arrays between quotes with every quote of the
\* value doubled, booleans and numbers bare.
C29_SelfContainedLiterals ==
    \A k \in 1..Len(cDeclarations) :
        IsLiteralOf(SubSeq(cDeclarations[k], 4, Len(cDeclarations[k])), cParams[k].value)

\* C33: an invocation of executeRemoteScript spawns one child process when
\* the script file can be read and none when it cannot, and nothing that
\* happens later (a failure, a timeout, the response) spawns another.
C33_OneSpawnPerInvocation ==
    /\ cStage \in {"off", "start"} => cSpawns = 0
    /\ cStage \in {"spawned", "settled", "responded"}
          => cSpawns = (IF cOutcome = ScriptNotFound THEN 0 ELSE 1)

\* An invocation that timed out and was answered: one process was spawned.
C33_Witness ==
    /\ cStage = "responded"
    /\ cOutcome = TimeoutError
    /\ cSpawns = 1

(***************************************************************************)
(* Claims about reloads of the configuration                               *)
(***************************************************************************)
\* C30: under every interleaving of reloadConfig, edits of roles.json and
\* permission checks, a check reads the flag, the role of the user and the
\* permissions of that role from one configuration object, which is never
\* the unloaded (null) one.
C30_OneSnapshot ==
    /\ gCheckPc # "idle" => gCheck.flagFrom # NullConfig
    /\ gCheckPc \in {"role", "done"} /\ gCheck.flagFrom.requireAuthentication
          => gCheck.roleFrom = gCheck.flagFrom
    /\ gCheckPc = "done" /\ gCheck.flagFrom.requireAuthentication
          => gCheck.permsFrom = gCheck.flagFrom

\* A check that went through all three reads of a configuration that a
\* reload has put in place of another one.
C30_Witness ==
    /\ gCheckPc = "done"
    /\ gReloadPc = "reloaded"
    /\ gCheck.flagFrom.requireAuthentication
    /\ gCheck.flagFrom = rolesFile
    /\ gCheck.userId = "U1" /\ gCheck.role = "IR_ANALYST" /\ ~gCheck.result

(***************************************************************************)
(* C31  checkPermission is a function of the configuration snapshot        *)
(***************************************************************************)
\* C31: two calls of checkPermission with the same actor and action and no
\* reload between them return the same decision, whatever happened to
\* roles.json in between, and a call leaves the loaded configuration as it
\* is (the first call after the module is loaded, or after a reload found
\* nothing, is the one that loads it).
C31_SameDecisionWithoutReload ==
    [][(aStage = "checked" /\ aStage' = "checked" /\ aUser' = aUser /\ aAction' = aAction)
          => /\ aResult' = aResult
             /\ rolesConfig # NullConfig => rolesConfig' = rolesConfig]_vars

\* A decision taken from the snapshot while roles.json on disk, edited since
\* the snapshot was loaded, would decide the other way.
C31_Witness ==
    /\ aStage = "checked"
    /\ rolesConfig.kind = "file" /\ rolesFile.kind = "file"
    /\ rolesFile # rolesConfig
    /\ aResult # HasPermission(rolesFile, aUser, aAction)
=============================================================================
